---- MODULE Spec2Model ----
(***************************************************************************)
(* Leader / follower state-change pipeline of the L2 chain.                *)
(*                                                                         *)
(*   crates/consensus   LeaderNode, StateChange, BroadcastServer,          *)
(*                      BroadcastClient, ValidatorNode                     *)
(*   crates/l2-runtime  AccountStore, L2Processor::process_output,         *)
(*                      BlockProducer::run_async                           *)
(*   crates/rpc-server  GameHandler::store_and_broadcast                   *)
(*   crates/validator   run_leader (update handler task)                   *)
(*                                                                         *)
(* A 32-byte key or root is one symbol; a hash is the exact input fed to   *)
(* the hasher (BLAKE3 taken as collision free on its input bytes).         *)
(***************************************************************************)
EXTENDS Integers, Sequences, FiniteSets, TLC

\* ------------------------------------------------------------------ bounds
MaxSlot == 3          \* slots the block producer runs through
MaxGameWrites == 2    \* store_and_broadcast calls of the game handler
MaxPending == 1       \* BlockUpdates the update handler may lag behind
MaxFrames == 2        \* frames put on the wire towards a stand-alone follower
MaxClientMsgs == 2    \* messages a validator sends on its session
QueueCap == 3         \* capacity of the admission queue (bounded(1024)), scaled
MaxTxsPerBlock == 2   \* largest max_txs_per_block configured (default 64), scaled
MaxSubmits == 5       \* TransactionSender::send calls made
MaxRestarts == 1      \* times the leader process is killed and started again

\* ------------------------------------------------------------ input sets
Keys == {1, 2}
Times == {0, 1}
TxKeys == {1}
node_id == "validator"

\* --------------------------------------------------------------- accounts
\* solana_sdk Account as the game handler and the follower build it:
\* executable false, rent_epoch 0.  Account n carries n-1 data bytes.
MkAccount(n) ==
  [lamports |-> n, data |-> [i \in 1..(n - 1) |-> n], owner |-> 1,
   executable |-> FALSE, rent_epoch |-> 0]

Accounts == {MkAccount(1), MkAccount(2)}

\* AccountStore: accounts and account_slots, one entry per key.
EmptyStore == [k \in {} |-> 0]

store_account(s, pubkey, account, slot) ==
  [k \in (DOMAIN s) \cup {pubkey} |->
     IF k = pubkey THEN [account |-> account, slot |-> slot] ELSE s[k]]

\* ------------------------------------------------------------ StateChange
ZeroRoot == <<0>>

StateChange_new(slot, prev_state_root, now) ==
  [slot |-> slot, prev_state_root |-> prev_state_root,
   new_state_root |-> ZeroRoot, writes |-> <<>>, timestamp |-> now,
   leader_signature |-> <<>>]

AccountWrite(pubkey, data, lamports, owner) ==
  [pubkey |-> pubkey, data |-> data, lamports |-> lamports, owner |-> owner]

add_write(change, pubkey, data, lamports, owner) ==
  [change EXCEPT !.writes = Append(@, AccountWrite(pubkey, data, lamports, owner))]

\* The bytes one write contributes to the hasher: key, data (no length
\* prefix), lamports, owner.
WriteBytes(w) == <<w.pubkey>> \o w.data \o <<w.lamports>> \o <<w.owner>>

RECURSIVE HashWrites(_)
HashWrites(ws) ==
  IF ws = <<>> THEN <<>> ELSE WriteBytes(Head(ws)) \o HashWrites(Tail(ws))

compute_hash(change) ==
  <<change.slot, change.prev_state_root, change.timestamp, HashWrites(change.writes)>>

\* ------------------------------------------------------------- LeaderNode
LeaderNode_new ==
  [state_root |-> ZeroRoot, current_change |-> <<>>,
   current_slot |-> 0, state_changes_broadcast |-> 0]

\* Faulty variant: every slot starts from the all-zero root.
begin_slot_zero_prev(l, slot, now) ==
  [l EXCEPT !.current_change = <<StateChange_new(slot, ZeroRoot, now)>>,
            !.current_slot = slot]

begin_slot(l, slot, now) ==
  [l EXCEPT !.current_change = <<StateChange_new(slot, l.state_root, now)>>,
            !.current_slot = slot]

record_write(l, pubkey, data, lamports, owner) ==
  IF l.current_change # <<>>
    THEN [l EXCEPT !.current_change =
            <<add_write(l.current_change[1], pubkey, data, lamports, owner)>>]
    ELSE l

Seal(change) == [change EXCEPT !.new_state_root = compute_hash(change)]

\* Faulty variant: an empty slot is sealed and broadcast like any other.
end_slot_always(l) ==
  IF l.current_change # <<>>
    THEN [leader |-> [l EXCEPT !.current_change = <<>>,
                               !.state_root = compute_hash(l.current_change[1]),
                               !.state_changes_broadcast = @ + 1],
          out |-> <<Seal(l.current_change[1])>>]
    ELSE [leader |-> l, out |-> <<>>]

\* end_slot: the leader afterwards, and what it handed to
\* BroadcastServer::broadcast_state_change (nothing, or one sealed change).
end_slot(l) ==
  IF l.current_change # <<>> /\ l.current_change[1].writes # <<>>
    THEN [leader |-> [l EXCEPT !.current_change = <<>>,
                               !.state_root = compute_hash(l.current_change[1]),
                               !.state_changes_broadcast = @ + 1],
          out |-> <<Seal(l.current_change[1])>>]
    ELSE [leader |-> [l EXCEPT !.current_change = <<>>], out |-> <<>>]

\* BroadcastServer: tx.send succeeds only with a subscribed receiver.
broadcast_state_change(srv, out) ==
  IF out # <<>> /\ srv.receivers > 0
    THEN [srv EXCEPT !.messages_broadcast = @ + 1]
    ELSE srv

\* ---------------------------------------------------------- ValidatorNode
ValidatorNode_new ==
  [accounts |-> EmptyStore, state_root |-> ZeroRoot, last_verified_slot |-> 0]

RECURSIVE ApplyWrites(_, _)
ApplyWrites(accounts, ws) ==
  IF ws = <<>> THEN accounts
  ELSE LET w == Head(ws) IN
       ApplyWrites(
         [k \in (DOMAIN accounts) \cup {w.pubkey} |->
            IF k = w.pubkey
              THEN [lamports |-> w.lamports, data |-> w.data, owner |-> w.owner,
                    executable |-> FALSE, rent_epoch |-> 0]
              ELSE accounts[k]],
         Tail(ws))

RootMismatch == "State root mismatch"
HashMismatch == "State root hash mismatch"

\* Faulty variant: the writes are applied before the hash is checked.
verify_and_apply_early(v, change) ==
  IF v.state_root # ZeroRoot /\ change.prev_state_root # v.state_root
    THEN [ok |-> FALSE, err |-> RootMismatch, node |-> v]
  ELSE IF compute_hash(change) # change.new_state_root
    THEN [ok |-> FALSE, err |-> HashMismatch,
          node |-> [v EXCEPT !.accounts = ApplyWrites(v.accounts, change.writes)]]
  ELSE [ok |-> TRUE, err |-> "",
        node |-> [v EXCEPT !.accounts = ApplyWrites(v.accounts, change.writes),
                           !.state_root = change.new_state_root]]

\* Faulty variant: only the first write of a change is applied.
verify_and_apply_first(v, change) ==
  IF v.state_root # ZeroRoot /\ change.prev_state_root # v.state_root
    THEN [ok |-> FALSE, err |-> RootMismatch, node |-> v]
  ELSE IF compute_hash(change) # change.new_state_root
    THEN [ok |-> FALSE, err |-> HashMismatch, node |-> v]
  ELSE [ok |-> TRUE, err |-> "",
        node |-> [v EXCEPT !.accounts =
                     ApplyWrites(v.accounts,
                                 IF change.writes = <<>> THEN <<>>
                                 ELSE <<Head(change.writes)>>),
                           !.state_root = change.new_state_root]]

\* verify_and_apply: the slot check only logs; the prev-root check is
\* skipped while the local root is all-zero.
verify_and_apply(v, change) ==
  IF v.state_root # ZeroRoot /\ change.prev_state_root # v.state_root
    THEN [ok |-> FALSE, err |-> RootMismatch, node |-> v]
  ELSE IF compute_hash(change) # change.new_state_root
    THEN [ok |-> FALSE, err |-> HashMismatch, node |-> v]
  ELSE [ok |-> TRUE, err |-> "",
        node |-> [v EXCEPT !.accounts = ApplyWrites(v.accounts, change.writes),
                           !.state_root = change.new_state_root]]

\* ValidatorMessage, as far as the follower sends it.
SlotVerified(slot, validator_id) ==
  [type |-> "SlotVerified", slot |-> slot, validator_id |-> validator_id]
FraudChallenge(slot, reason, evidence) ==
  [type |-> "FraudChallenge", slot |-> slot, reason |-> reason, evidence |-> evidence]
SyncRequest(from_slot) == [type |-> "SyncRequest", from_slot |-> from_slot]
SyncResponse(changes) == [type |-> "SyncResponse", changes |-> changes]
StateChangeMsg(change) == [type |-> "StateChange", change |-> change]

\* ------------------------------------------------------------------ state
VARIABLES
  leader,       \* LeaderNode: state_root, current_change, stats
  server,       \* BroadcastServer: messages_broadcast, subscribed receivers
  log,          \* every StateChange handed to broadcast_state_change, in order
  store,        \* the leader's AccountStore
  snaps,        \* the leader's AccountStore as it was when log[i] was sealed
  bp_slot,      \* L2Processor.current_slot
  updates,      \* BlockUpdates published and not yet received by the handler
  uh_pc,        \* update handler: "idle", or "open" between begin_slot and end_slot
  uh_update,    \* the BlockUpdate the handler is working on
  rpc_slot,     \* RpcContext.current_slot
  gh_pending,   \* game handler between store_account and record_write
  gh_count,     \* game handler writes made so far
  follower,     \* ValidatorNode: accounts, state_root, last_verified_slot
  f_inbox,      \* StateChanges on their way to the follower (state_rx)
  f_out,        \* messages the follower sent to the leader (msg_tx)
  f_running,    \* the follower is in its receive loop
  f_closed,     \* the connection to the leader is gone
  f_applied,    \* the StateChanges verify_and_apply accepted, in order
  f_injected,   \* frames put on the wire by something other than end_slot
  twin,         \* a second, independent LeaderNode fed the same calls
  twin_log,     \* what the second leader broadcast
  s_open,       \* a validator session of the broadcast server is running
  s_next,       \* the session's broadcast receiver: next entry of log it gets
  s_in,         \* messages from the validator the session has not read yet
  s_wire,       \* every message the server wrote to the validator's socket
  s_info,       \* validators[temp_id] (ValidatorInfo), <<>> when absent
  s_sent,       \* messages the validator sent on the session so far
  h_a, h_b,     \* two writes sequences given to compute_hash
  h_out,        \* <<>>, or the two hashes computed
  tx_queue,     \* the admission queue (tx_sender / tx_receiver)
  max_txs,      \* BlockProducerConfig.max_txs_per_block
  bp_hash,      \* L2Processor.current_blockhash
  uniq,         \* the next value Hash::new_unique returns
  bp_alive,     \* the block producer task has not been unwound by a panic
  rpc_hash,     \* RpcContext.current_blockhash
  send_result,  \* what the last TransactionSender::send returned
  n_sent,       \* TransactionSender::send calls made so far
  disk,         \* the PersistentStore: accounts with their slots, and metadata
  sv_pc,        \* where each saver (periodic, shutdown) is in its snapshot
  sv_keys,      \* the pubkeys each saver's save_to_disk has still to write
  sv_ops,       \* the PersistentStore calls of each saver's current snapshot
  durable,      \* the part of disk that has reached the file: what a restart reads
  disk_done,    \* <<>>, or disk as it was when the last snapshot completed
  restarts,     \* times the leader process was killed and started again
  rt_loaded,    \* <<>>, or what the last save followed by a load gave back
  rt_ops,       \* account-store calls made in the round-trip scenario
  as_accounts,  \* AccountStore.accounts at one key: <<>> or <<account>>
  as_slots,     \* AccountStore.account_slots at that key: <<>> or <<slot>>
  as_w,         \* the writing thread: where it is in store_account / remove_account
  as_r,         \* the reading thread: where it is in get_account_with_slot
  as_written,   \* the (account, slot) pairs store_account was called with
  as_result,    \* what get_account_with_slot returned last: <<>> for None
  cb_out,       \* <<>>, or the last get_account_shared_data call and its result
  nt_sub,       \* SubscriptionManager: <<>>, or the one subscription registered
  nt_next,      \* SubscriptionManager.next_id
  nt_chan,      \* the subscription's broadcast channel, as its receiver sees it
  nt_recv,      \* every notification the subscriber's task has received
  nt_commits,   \* every (pubkey, slot, account) the ticks committed, in order
  fo_log,       \* every frame handed to BroadcastServer.tx.send, in order
  fo_sess,      \* one validator session: its receiver and what it forwarded
  sd_bp,        \* a BlockProducer with its owner: running flag, loop position
  am,           \* an AccountStore used by one thread, and the calls made on it
  sm,           \* a SubscriptionManager, its receivers and the calls made on it
  mo_out,       \* <<>>, or the last account_matches_owners call and its result
  vm,           \* BroadcastServer.validators and the connection handlers
  lg,           \* the update handler's receiver: lagged flag, task alive
  ex,           \* transactions accepted by send and handed to the processor
  wd            \* one world: its WorldConfig, the player accounts, the last call

leaderVars == <<leader, server, log, store, snaps, bp_slot, updates, uh_pc,
                uh_update, rpc_slot, gh_pending, gh_count>>
followerVars == <<follower, f_inbox, f_out, f_running, f_closed, f_applied, f_injected>>
twinVars == <<twin, twin_log>>
sessionVars == <<s_open, s_next, s_in, s_wire, s_info, s_sent>>
hashVars == <<h_a, h_b, h_out>>
bpVars == <<tx_queue, max_txs, bp_hash, uniq, bp_alive, rpc_hash, send_result, n_sent>>
durVars == <<durable, disk_done, restarts>>
snapVars == <<disk, sv_pc, sv_keys, sv_ops, durVars>>
rtVars == <<rt_loaded, rt_ops>>
atomVars == <<as_accounts, as_slots, as_w, as_r, as_written, as_result>>
cbVars == <<cb_out>>
notifyVars == <<nt_sub, nt_next, nt_chan, nt_recv, nt_commits>>
fanVars == <<fo_log, fo_sess>>
stopVars == <<sd_bp>>
lateVars == <<am, sm, mo_out, vm, lg, ex, wd>>
auxVars == <<rtVars, atomVars, cbVars, notifyVars, fanVars, stopVars, lateVars>>
rtOthers == <<atomVars, cbVars, notifyVars, fanVars, stopVars, lateVars>>
baseVars ==
  <<leaderVars, followerVars, twinVars, sessionVars, hashVars, bpVars, snapVars,
    rtVars, atomVars, cbVars, notifyVars, fanVars, stopVars>>
extVars == <<sessionVars, hashVars, bpVars, snapVars, auxVars>>
nonLeaderVars == <<followerVars, twinVars, extVars>>
nonFollowerVars == <<leaderVars, twinVars, extVars>>
vars == <<leaderVars, followerVars, twinVars, extVars>>

NoUpdate ==
  [slot |-> 0, blockhash |-> 0, transaction_count |-> 0,
   modified_accounts |-> <<>>, transaction_results |-> <<>>]

LeaderInit ==
  /\ leader = LeaderNode_new
  /\ server = [messages_broadcast |-> 0, receivers |-> 0]
  /\ log = <<>>
  /\ store = EmptyStore
  /\ snaps = <<>>
  /\ bp_slot = 0
  /\ updates = <<>>
  /\ uh_pc = "idle"
  /\ uh_update = NoUpdate
  /\ rpc_slot = 0
  /\ gh_pending = <<>>
  /\ gh_count = 0

FollowerInit ==
  /\ follower = ValidatorNode_new
  /\ f_inbox = <<>>
  /\ f_out = <<>>
  /\ f_running = TRUE
  /\ f_closed = FALSE
  /\ f_applied = <<>>
  /\ f_injected = 0

TwinInit ==
  /\ twin = LeaderNode_new
  /\ twin_log = <<>>

SessionInit ==
  /\ s_open = FALSE
  /\ s_next = 1
  /\ s_in = <<>>
  /\ s_wire = <<>>
  /\ s_info = <<>>
  /\ s_sent = 0

HashInit ==
  /\ h_a = <<>>
  /\ h_b = <<>>
  /\ h_out = <<>>

\* L2Processor::new takes the first unique hash, run_leader the second for
\* the RPC context.
BPInitWith(configs) ==
  /\ tx_queue = <<>>
  /\ max_txs \in configs
  /\ bp_hash = 1
  /\ rpc_hash = 2
  /\ uniq = 3
  /\ bp_alive = TRUE
  /\ send_result = "none"
  /\ n_sent = 0

BPInit == BPInitWith({MaxTxsPerBlock})

Savers == {"periodic", "shutdown"}

\* PersistentStore::open on an empty data directory; no save under way.
SnapInit ==
  /\ disk = [accounts |-> EmptyStore, metadata |-> <<>>]
  /\ sv_pc = [w \in Savers |-> "idle"]
  /\ sv_keys = [w \in Savers |-> {}]
  /\ sv_ops = [w \in Savers |-> <<>>]
  /\ durable = disk
  /\ disk_done = <<>>
  /\ restarts = 0

RTInit ==
  /\ rt_loaded = <<>>
  /\ rt_ops = 0

\* AccountStore::new, with both threads outside any call.
AtomInit ==
  /\ as_accounts = <<>>
  /\ as_slots = <<>>
  /\ as_w = [pc |-> "idle", calls |-> 0]
  /\ as_r = [pc |-> "idle", calls |-> 0]
  /\ as_written = {}
  /\ as_result = <<>>

CBInit == cb_out = <<>>

\* SubscriptionManager::new.
NotifyInit ==
  /\ nt_sub = <<>>
  /\ nt_next = 1
  /\ nt_chan = [buffer |-> <<>>, lagged |-> FALSE]
  /\ nt_recv = <<>>
  /\ nt_commits = <<>>

\* BroadcastServer::new, no validator connected.
FanInit ==
  /\ fo_log = <<>>
  /\ fo_sess = [open |-> FALSE, sessions |-> 0, start |-> 1, next |-> 1,
                wire |-> <<>>, lagged |-> 0, running |-> FALSE]

\* BlockProducer::new: running is false, nothing queued, run not yet called.
StopInit ==
  sd_bp = [pc |-> "new", running |-> FALSE, queue |-> 0, pending |-> 0,
           slot |-> 0, updates |-> 0, sent |-> 0, stopped |-> FALSE,
           ticks_after_stop |-> 0]

\* AccountStore::new, no call made yet.
MapInit == am = [accounts |-> <<>>, account_slots |-> <<>>, calls |-> <<>>]

\* SubscriptionManager::new, no call made yet.
SubsInit ==
  sm = [subscriptions |-> <<>>, pubkey_subscriptions |-> <<>>, next_id |-> 1,
        receivers |-> <<>>, calls |-> <<>>]

OwnersInit == mo_out = <<>>

MaxSessions == 2      \* validator connections accepted
MaxConnects == 3      \* connections the accept loop takes

Conns == 1..MaxSessions

\* BroadcastServer::new: no validator, no connection accepted.
ValidatorsInit ==
  vm = [validators |-> <<>>, next_unique |-> 1, accepted |-> 0,
        conn |-> [c \in Conns |-> [pc |-> "none", temp_id |-> 0, send_task |-> "none"]]]

\* block_producer.subscribe() and the update handler task spawned.
LagInit == lg = [lagged |-> FALSE, alive |-> TRUE]

ExecInit == ex = [accepted |-> <<>>, executed |-> <<>>]

\* No world account and no player account in the store.
WorldInit ==
  wd = [exists |-> FALSE, authority |-> 0, max_players |-> 0, player_count |-> 0,
        players |-> {}, last |-> [op |-> "none", authority |-> 0]]

LateInit ==
  MapInit /\ SubsInit /\ OwnersInit /\ ValidatorsInit /\ LagInit /\ ExecInit
  /\ WorldInit

AuxInit == RTInit /\ AtomInit /\ CBInit /\ NotifyInit /\ FanInit /\ StopInit /\ LateInit

ExtInit == SessionInit /\ HashInit /\ BPInit /\ SnapInit /\ AuxInit

Init == LeaderInit /\ FollowerInit /\ TwinInit /\ ExtInit

\* ------------------------------------------------- block producer (tick)
\* What the instruction processor returned for one transaction: its status
\* and the accounts of the loaded transaction.
TxOutcomes ==
  {[success |-> ok, accounts |-> <<<<k, a>>>>] :
     ok \in BOOLEAN, k \in TxKeys, a \in Accounts}

TickBatches == {<<>>} \cup {<<t>> : t \in TxOutcomes}

RECURSIVE StoreAll(_, _, _)
StoreAll(s, accts, slot) ==
  IF accts = <<>> THEN s
  ELSE StoreAll(store_account(s, Head(accts)[1], Head(accts)[2], slot), Tail(accts), slot)

\* Faulty variant: the accounts of a failed transaction are stored as well.
RECURSIVE process_output_store_failed(_, _, _)
process_output_store_failed(s, txs, slot) ==
  IF txs = <<>> THEN [store |-> s, results |-> <<>>]
  ELSE LET t == Head(txs)
           s1 == StoreAll(s, t.accounts, slot)
           r == [slot |-> slot, success |-> t.success,
                 modified_accounts |-> IF t.success THEN t.accounts ELSE <<>>]
           rest == process_output_store_failed(s1, Tail(txs), slot)
       IN [store |-> rest.store, results |-> <<r>> \o rest.results]

\* process_output: a successful transaction's accounts are stored under the
\* current slot and reported; a failed one stores and reports nothing.
RECURSIVE process_output(_, _, _)
process_output(s, txs, slot) ==
  IF txs = <<>> THEN [store |-> s, results |-> <<>>]
  ELSE LET t == Head(txs)
           s1 == IF t.success THEN StoreAll(s, t.accounts, slot) ELSE s
           r == [slot |-> slot, success |-> t.success,
                 modified_accounts |-> IF t.success THEN t.accounts ELSE <<>>]
           rest == process_output(s1, Tail(txs), slot)
       IN [store |-> rest.store, results |-> <<r>> \o rest.results]

RECURSIVE Modified(_)
Modified(results) ==
  IF results = <<>> THEN <<>>
  ELSE (IF Head(results).success THEN Head(results).modified_accounts ELSE <<>>)
         \o Modified(Tail(results))

\* advance_slot: the slot goes up by one and the blockhash is replaced by a
\* new unique hash.
advance_slot(slot, new_unique) ==
  [current_slot |-> slot + 1, current_blockhash |-> new_unique]

\* One iteration of BlockProducer::run_async once the batch is drained:
\* execute, advance_slot, publish the BlockUpdate.
TickCore(txs) ==
  LET out == process_output(store, txs, bp_slot)
      adv == advance_slot(bp_slot, uniq)
  IN /\ store' = out.store
     /\ bp_slot' = adv.current_slot
     /\ bp_hash' = adv.current_blockhash
     /\ uniq' = uniq + 1
     /\ updates' = Append(updates,
          [slot |-> adv.current_slot, blockhash |-> adv.current_blockhash,
           transaction_count |-> Len(txs),
           modified_accounts |-> Modified(out.results),
           transaction_results |-> out.results])

\* A tick whose batch is one of batches, whatever the queue held.
TickWith(batches) ==
  /\ bp_alive
  /\ bp_slot < MaxSlot
  /\ Len(updates) < MaxPending
  /\ \E txs \in batches : TickCore(txs)
  /\ UNCHANGED <<leader, server, log, snaps, uh_pc, uh_update, rpc_slot,
                 gh_pending, gh_count, followerVars, twinVars, sessionVars, hashVars, snapVars, auxVars,
                 tx_queue, max_txs, bp_alive, rpc_hash, send_result, n_sent>>

\* ------------------------------------------- update handler (run_leader)
\* recv a BlockUpdate, begin_slot, publish the slot to the RPC context.
UH_Begin ==
  /\ uh_pc = "idle"
  /\ updates # <<>>
  /\ \E now \in Times : leader' = begin_slot(leader, Head(updates).slot, now)
  /\ uh_update' = Head(updates)
  /\ updates' = Tail(updates)
  /\ rpc_slot' = Head(updates).slot
  /\ rpc_hash' = Head(updates).blockhash
  /\ uh_pc' = "open"
  /\ UNCHANGED <<server, log, store, snaps, bp_slot, gh_pending, gh_count,
                 followerVars, twinVars, sessionVars, hashVars, snapVars, auxVars,
                 tx_queue, max_txs, bp_hash, uniq, bp_alive, send_result, n_sent>>

\* end_slot: seal and broadcast if the slot recorded a write.
UH_End ==
  /\ uh_pc = "open"
  /\ LET r == end_slot(leader) IN
     /\ leader' = r.leader
     /\ log' = log \o r.out
     /\ snaps' = IF r.out # <<>> THEN Append(snaps, store) ELSE snaps
     /\ server' = broadcast_state_change(server, r.out)
     /\ f_inbox' = IF server.receivers > 0 THEN f_inbox \o r.out ELSE f_inbox
  /\ uh_pc' = "idle"
  /\ UNCHANGED <<store, bp_slot, updates, uh_update, rpc_slot, gh_pending, gh_count,
                 follower, f_out, f_running, f_closed, f_applied, f_injected,
                 twinVars, extVars>>

\* -------------------------------------------------- game handler (RPC task)
\* store_and_broadcast, first half: AccountStore::store_account.
GH_StoreWith(keys, accounts) ==
  /\ gh_pending = <<>>
  /\ gh_count < MaxGameWrites
  /\ \E k \in keys, a \in accounts :
       /\ store' = store_account(store, k, a, rpc_slot)
       /\ gh_pending' = <<[pubkey |-> k, account |-> a]>>
  /\ gh_count' = gh_count + 1
  /\ UNCHANGED <<leader, server, log, snaps, bp_slot, updates, uh_pc, uh_update,
                 rpc_slot, nonLeaderVars>>

\* store_and_broadcast, second half: LeaderNode::record_write.
GH_Record ==
  /\ gh_pending # <<>>
  /\ LET w == gh_pending[1] IN
     leader' = record_write(leader, w.pubkey, w.account.data,
                            w.account.lamports, w.account.owner)
  /\ gh_pending' = <<>>
  /\ UNCHANGED <<server, log, store, snaps, bp_slot, updates, uh_pc, uh_update,
                 rpc_slot, gh_count, nonLeaderVars>>

\* ------------------------------------------------------------- follower
\* A validator connects: the session subscribes to the broadcast channel.
Subscribe ==
  /\ server.receivers = 0
  /\ server' = [server EXCEPT !.receivers = 1]
  /\ UNCHANGED <<leader, log, store, snaps, bp_slot, updates, uh_pc, uh_update,
                 rpc_slot, gh_pending, gh_count, nonLeaderVars>>

\* One iteration of ValidatorNode::run with a StateChange received.
FollowerRecv ==
  /\ f_running
  /\ f_inbox # <<>>
  /\ LET change == Head(f_inbox)
         r == verify_and_apply(follower, change)
     IN IF r.ok
          THEN /\ follower' = [r.node EXCEPT !.last_verified_slot = change.slot]
               /\ f_out' = Append(f_out, SlotVerified(change.slot, node_id))
               /\ f_applied' = Append(f_applied, change)
          ELSE /\ follower' = r.node
               /\ f_out' = Append(f_out, FraudChallenge(change.slot, r.err, <<>>))
               /\ f_applied' = f_applied
  /\ f_inbox' = Tail(f_inbox)
  /\ UNCHANGED <<nonFollowerVars, f_running, f_closed, f_injected>>

\* Faulty variant: None as soon as the receiver task has ended, whatever
\* the state channel still holds.
recv_state_change_none_on_close(inbox, closed) == closed

\* recv_state_change returns None: the receiver task has ended and dropped
\* the only sender of the state channel, and the channel is empty.
recv_state_change_none(inbox, closed) == closed /\ inbox = <<>>

\* recv_state_change returns None: the loop ends.
FollowerStop ==
  /\ f_running
  /\ recv_state_change_none(f_inbox, f_closed)
  /\ f_running' = FALSE
  /\ UNCHANGED <<nonFollowerVars, follower, f_inbox, f_out, f_closed, f_applied, f_injected>>

Tick == TickWith(TickBatches)

GH_Store == GH_StoreWith(Keys, Accounts)

\* A tick with an empty admission queue.
IdleTick == TickWith({<<>>})

Next ==
  \/ Tick
  \/ UH_Begin
  \/ UH_End
  \/ GH_Store
  \/ GH_Record
  \/ Subscribe
  \/ FollowerRecv

Spec == Init /\ [][Next]_vars

\* The leader with no transactions submitted: the game handler is the only
\* source of account writes, and no follower process is attached.
NextLeader ==
  \/ IdleTick
  \/ UH_Begin
  \/ UH_End
  \/ GH_Store
  \/ GH_Record
  \/ Subscribe

SpecLeader == Init /\ [][NextLeader]_vars

\* --------------------------------------------- two independent leader runs
\* Two LeaderNodes are given the same calls with the same arguments; only
\* the wall clock StateChange::new reads differs between them.
TwinBegin ==
  /\ uh_pc = "idle"
  /\ bp_slot < MaxSlot
  /\ \E now1 \in Times, now2 \in Times :
       /\ leader' = begin_slot(leader, bp_slot + 1, now1)
       /\ twin' = begin_slot(twin, bp_slot + 1, now2)
  /\ bp_slot' = bp_slot + 1
  /\ uh_pc' = "open"
  /\ UNCHANGED <<server, log, store, snaps, updates, uh_update, rpc_slot,
                 gh_pending, gh_count, followerVars, extVars, twin_log>>

TwinRecord ==
  /\ uh_pc = "open"
  /\ gh_count < MaxGameWrites
  /\ \E k \in Keys, a \in Accounts :
       /\ leader' = record_write(leader, k, a.data, a.lamports, a.owner)
       /\ twin' = record_write(twin, k, a.data, a.lamports, a.owner)
  /\ gh_count' = gh_count + 1
  /\ UNCHANGED <<server, log, store, snaps, bp_slot, updates, uh_pc, uh_update,
                 rpc_slot, gh_pending, followerVars, extVars, twin_log>>

TwinEnd ==
  /\ uh_pc = "open"
  /\ leader' = end_slot(leader).leader
  /\ log' = log \o end_slot(leader).out
  /\ twin' = end_slot(twin).leader
  /\ twin_log' = twin_log \o end_slot(twin).out
  /\ uh_pc' = "idle"
  /\ UNCHANGED <<server, store, snaps, bp_slot, updates, uh_update, rpc_slot,
                 gh_pending, gh_count, followerVars, extVars>>

NextDet ==
  \/ TwinBegin
  \/ TwinRecord
  \/ TwinEnd

SpecDet == Init /\ [][NextDet]_vars

\* ------------------------------------------------ a follower on its own
\* The follower connects to whatever address it is given, so the frames it
\* receives are arbitrary: any slot, any prev_state_root it could have seen
\* or not, a new_state_root that is the hash of the body or is not.
OtherRoot == <<1>>

FrameWrites ==
  {<<>>,
   <<AccountWrite(1, <<>>, 1, 1)>>,
   <<AccountWrite(2, <<2>>, 2, 1)>>,
   <<AccountWrite(1, <<>>, 1, 1), AccountWrite(1, <<2>>, 2, 1)>>}

KnownRoots ==
  {ZeroRoot, OtherRoot, follower.state_root}
    \cup {f_inbox[i].new_state_root : i \in 1..Len(f_inbox)}

Frames ==
  UNION {
    LET body == [StateChange_new(slot, prev, 0) EXCEPT !.writes = ws] IN
    {[body EXCEPT !.new_state_root = compute_hash(body)],
     [body EXCEPT !.new_state_root = ZeroRoot]} :
    slot \in 0..MaxSlot, prev \in KnownRoots, ws \in FrameWrites}

Inject ==
  /\ f_running
  /\ ~f_closed
  /\ f_injected < MaxFrames
  /\ \E frame \in Frames : f_inbox' = Append(f_inbox, frame)
  /\ f_injected' = f_injected + 1
  /\ UNCHANGED <<nonFollowerVars, follower, f_out, f_running, f_closed, f_applied>>

\* The leader closes the connection or the transport fails.
CloseConn ==
  /\ ~f_closed
  /\ f_closed' = TRUE
  /\ UNCHANGED <<nonFollowerVars, follower, f_inbox, f_out, f_running, f_applied, f_injected>>

NextFollower ==
  \/ Inject
  \/ FollowerRecv
  \/ CloseConn
  \/ FollowerStop

SpecFollower == Init /\ [][NextFollower]_vars

\* The same follower with its run loop scheduled: run is one tokio task
\* whose only awaits are recv_state_change and the two sends on the message
\* channel; the channel holds 100 messages and its sender task either
\* forwards them or ends and drops the receiving half, so neither send
\* keeps the loop waiting.
SpecFollowerLive ==
  Init /\ [][NextFollower]_vars /\ WF_vars(FollowerRecv) /\ WF_vars(FollowerStop)

\* ------------------------------------- a validator session of the server
\* handle_validator_connection for one validator.  The socket's write half
\* is moved into the forwarding task, so the only messages the server puts
\* on the wire are the broadcast frames that task forwards.
CloseMsg == [type |-> "Close"]

ClientMsgs ==
  {SyncRequest(1), SlotVerified(1, node_id),
   FraudChallenge(1, HashMismatch, <<>>), CloseMsg}

\* The game handler writing one fixed account.
GH_StoreOne == GH_StoreWith({1}, {MkAccount(1)})

\* accept: subscribe to the broadcast channel, register the validator.
SessionAccept ==
  /\ ~s_open
  /\ server.receivers = 0
  /\ s_sent < MaxClientMsgs
  /\ s_open' = TRUE
  /\ s_next' = Len(log) + 1
  /\ s_info' = <<[last_verified_slot |-> 0]>>
  /\ server' = [server EXCEPT !.receivers = 1]
  /\ UNCHANGED <<leader, log, store, snaps, bp_slot, updates, uh_pc, uh_update,
                 rpc_slot, gh_pending, gh_count, followerVars, twinVars, hashVars, snapVars, auxVars, bpVars,
                 s_in, s_wire, s_sent>>

\* The forwarding task: rx.recv, ws_sender.send.
SessionForward ==
  /\ s_open
  /\ s_next <= Len(log)
  /\ s_wire' = Append(s_wire, StateChangeMsg(log[s_next]))
  /\ s_next' = s_next + 1
  /\ UNCHANGED <<leaderVars, followerVars, twinVars, hashVars, snapVars, auxVars, bpVars,
                 s_open, s_in, s_info, s_sent>>

\* The validator writes a message to its socket.
ClientSend ==
  /\ s_open
  /\ s_sent < MaxClientMsgs
  /\ \E m \in ClientMsgs : s_in' = Append(s_in, m)
  /\ s_sent' = s_sent + 1
  /\ UNCHANGED <<leaderVars, followerVars, twinVars, hashVars, snapVars, auxVars, bpVars,
                 s_open, s_next, s_wire, s_info>>

\* One iteration of the session's read loop.  SlotVerified updates the
\* validator's record; FraudChallenge and SyncRequest are logged; Close ends
\* the loop and the cleanup removes the validator.
SessionRecv ==
  /\ s_open
  /\ s_in # <<>>
  /\ LET m == Head(s_in) IN
     IF m.type = "Close"
       THEN /\ s_open' = FALSE
            /\ s_in' = <<>>
            /\ s_info' = <<>>
            /\ server' = [server EXCEPT !.receivers = 0]
       ELSE /\ s_open' = s_open
            /\ s_in' = Tail(s_in)
            /\ s_info' = IF m.type = "SlotVerified"
                            THEN <<[last_verified_slot |-> m.slot]>>
                            ELSE s_info
            /\ server' = server
  /\ UNCHANGED <<leader, log, store, snaps, bp_slot, updates, uh_pc, uh_update,
                 rpc_slot, gh_pending, gh_count, followerVars, twinVars, hashVars, snapVars, auxVars, bpVars,
                 s_next, s_wire, s_sent>>

NextSession ==
  \/ IdleTick
  \/ UH_Begin
  \/ UH_End
  \/ GH_StoreOne
  \/ GH_Record
  \/ SessionAccept
  \/ SessionForward
  \/ ClientSend
  \/ SessionRecv

\* The session's two tasks, the update handler and an RPC handler that has
\* started are tokio tasks: each runs when it has input.
SpecSession ==
  /\ Init /\ [][NextSession]_vars
  /\ WF_vars(SessionForward) /\ WF_vars(SessionRecv)
  /\ WF_vars(UH_Begin) /\ WF_vars(UH_End) /\ WF_vars(GH_Record)

\* ------------------------------------------------ compute_hash on its own
\* compute_hash applied to two StateChanges that agree on slot,
\* prev_state_root and timestamp and carry arbitrary writes.  A pubkey, the
\* lamports and the owner are fixed-width fields (one unit each here); data
\* is fed to the hasher as it is, whatever its length.
HashData == {<<>>, <<1>>, <<2>>, <<1, 1, 1>>}

HashWriteSet == {AccountWrite(k, d, 1, 1) : k \in Keys, d \in HashData}

HashWriteSeqs ==
  {<<>>} \cup {<<w>> : w \in HashWriteSet}
         \cup {<<w1, w2>> : w1 \in HashWriteSet, w2 \in HashWriteSet}

HashChange(ws) == [StateChange_new(1, ZeroRoot, 0) EXCEPT !.writes = ws]

HashInputsInit ==
  /\ h_a \in HashWriteSeqs
  /\ h_b \in HashWriteSeqs
  /\ h_out = <<>>

HashBoth ==
  /\ h_out = <<>>
  /\ h_out' = <<compute_hash(HashChange(h_a)), compute_hash(HashChange(h_b))>>
  /\ UNCHANGED <<leaderVars, followerVars, twinVars, sessionVars, bpVars, snapVars, auxVars, h_a, h_b>>

InitHash ==
  /\ LeaderInit /\ FollowerInit /\ TwinInit /\ SessionInit /\ BPInit /\ SnapInit
  /\ AuxInit
  /\ HashInputsInit

SpecHash == InitHash /\ [][HashBoth]_vars

\* ------------------------------------- the block producer and its queue
\* Transactions as the instruction processor will treat them: executed with
\* success, failed, or making load_and_execute_sanitized_transactions panic.
QueueTx(success, k, a, panics) ==
  [success |-> success, accounts |-> <<<<k, a>>>>, panics |-> panics]

QueueTxs ==
  {QueueTx(TRUE, 1, MkAccount(1), FALSE), QueueTx(FALSE, 1, MkAccount(2), FALSE),
   QueueTx(FALSE, 2, MkAccount(2), FALSE), QueueTx(TRUE, 1, MkAccount(1), TRUE)}

\* Faulty variant: send waits for room, so the transaction always gets in.
send_always(queue, alive, tx) ==
  [result |-> "ok", queue |-> Append(queue, tx)]

\* TransactionSender::send: try_send on the bounded channel.
TransactionSender_send(queue, alive, tx) ==
  IF ~alive THEN [result |-> "disconnected", queue |-> queue]
  ELSE IF Len(queue) >= QueueCap THEN [result |-> "full", queue |-> queue]
  ELSE [result |-> "ok", queue |-> Append(queue, tx)]

\* Faulty variant: the limit is tested before a transaction is taken.
RECURSIVE drain_test_first(_, _, _)
drain_test_first(queue, pending, max) ==
  IF queue = <<>> \/ Len(pending) >= max
    THEN [pending |-> pending, queue |-> queue]
  ELSE drain_test_first(Tail(queue), Append(pending, Head(queue)), max)

\* Faulty variant: each transaction taken is put in front of the batch.
RECURSIVE drain_newest_first(_, _, _)
drain_newest_first(queue, pending, max) ==
  IF queue = <<>> THEN [pending |-> pending, queue |-> queue]
  ELSE LET p == <<Head(queue)>> \o pending IN
       IF Len(p) >= max THEN [pending |-> p, queue |-> Tail(queue)]
       ELSE drain_newest_first(Tail(queue), p, max)

\* The drain loop of run_async: try_recv, push, stop once the batch has
\* max_txs_per_block transactions or the queue is empty.
RECURSIVE drain(_, _, _)
drain(queue, pending, max) ==
  IF queue = <<>> THEN [pending |-> pending, queue |-> queue]
  ELSE LET p == Append(pending, Head(queue)) IN
       IF Len(p) >= max THEN [pending |-> p, queue |-> Tail(queue)]
       ELSE drain(Tail(queue), p, max)

Panics(txs) == \E i \in 1..Len(txs) : txs[i].panics

Submit ==
  /\ n_sent < MaxSubmits
  /\ \E tx \in QueueTxs :
       LET r == TransactionSender_send(tx_queue, bp_alive, tx) IN
       /\ tx_queue' = r.queue
       /\ send_result' = r.result
  /\ n_sent' = n_sent + 1
  /\ UNCHANGED <<leaderVars, followerVars, twinVars, sessionVars, hashVars, snapVars, auxVars,
                 max_txs, bp_hash, uniq, bp_alive, rpc_hash>>

\* One iteration of run_async, the queue drained first.
BP_Tick ==
  /\ bp_alive
  /\ bp_slot < MaxSlot
  /\ LET d == drain(tx_queue, <<>>, max_txs) IN
     /\ ~Panics(d.pending)
     /\ TickCore(d.pending)
     /\ tx_queue' = d.queue
  /\ UNCHANGED <<leader, server, log, snaps, uh_pc, uh_update, rpc_slot,
                 gh_pending, gh_count, followerVars, twinVars, sessionVars, hashVars, snapVars, auxVars,
                 max_txs, bp_alive, rpc_hash, send_result, n_sent>>

\* process_transactions re-raises a panic of the instruction processor: the
\* task unwinds, the producer and its end of the queue are dropped.
BP_Panic ==
  /\ bp_alive
  /\ bp_slot < MaxSlot
  /\ Panics(drain(tx_queue, <<>>, max_txs).pending)
  /\ bp_alive' = FALSE
  /\ tx_queue' = <<>>
  /\ UNCHANGED <<leaderVars, followerVars, twinVars, sessionVars, hashVars, snapVars, auxVars,
                 max_txs, bp_hash, uniq, rpc_hash, send_result, n_sent>>

InitQueue ==
  /\ LeaderInit /\ FollowerInit /\ TwinInit /\ SessionInit /\ HashInit
  /\ BPInitWith(0..MaxTxsPerBlock) /\ SnapInit /\ AuxInit

NextQueue ==
  \/ Submit
  \/ BP_Tick
  \/ BP_Panic

SpecQueue == InitQueue /\ [][NextQueue]_vars

\* ------------------------------------------------ snapshots (run_leader)
\* --save-interval (default 300), scaled.
SaveInterval == 1

ChainMetadata(slot, blockhash, account_count) ==
  [slot |-> slot, blockhash |-> blockhash, account_count |-> account_count]

\* PersistentStore::save_metadata: the "chain" entry is replaced.
save_metadata(d, metadata) == [d EXCEPT !.metadata = <<metadata>>]

\* bincode of an account: its fields in declaration order.
bincode_serialize(account) ==
  <<account.lamports, account.data, account.owner, account.executable,
    account.rent_epoch>>

bincode_deserialize(bytes) ==
  [lamports |-> bytes[1], data |-> bytes[2], owner |-> bytes[3],
   executable |-> bytes[4], rent_epoch |-> bytes[5]]

\* u64::to_le_bytes and from_le_bytes: eight bytes, least significant first.
RECURSIVE le_bytes(_, _)
le_bytes(n, len) ==
  IF len = 0 THEN <<>> ELSE <<n % 256>> \o le_bytes(n \div 256, len - 1)

to_le_bytes(slot) == le_bytes(slot, 8)

RECURSIVE from_le_bytes(_)
from_le_bytes(bytes) ==
  IF bytes = <<>> THEN 0 ELSE Head(bytes) + 256 * from_le_bytes(Tail(bytes))

\* PersistentStore::store_account: account bytes and slot bytes under the
\* pubkey.
PersistentStore_store_account(d, pubkey, entry) ==
  [d EXCEPT !.accounts = store_account(d.accounts, pubkey,
                                       bincode_serialize(entry.account),
                                       to_le_bytes(entry.slot))]

\* The tasks of run_leader run until the shutdown save is over and they are
\* aborted.
Running == sv_pc["shutdown"] # "done"

\* The update handler's end_slot, followed by the test for a periodic save.
UH_EndSave ==
  /\ uh_pc = "open"
  /\ LET r == end_slot(leader) IN
     /\ leader' = r.leader
     /\ log' = log \o r.out
     /\ snaps' = IF r.out # <<>> THEN Append(snaps, store) ELSE snaps
     /\ server' = broadcast_state_change(server, r.out)
     /\ f_inbox' = IF server.receivers > 0 THEN f_inbox \o r.out ELSE f_inbox
  /\ IF SaveInterval > 0 /\ uh_update.slot % SaveInterval = 0 /\ uh_update.slot > 0
       THEN /\ uh_pc' = "saving"
            /\ sv_pc' = [sv_pc EXCEPT !["periodic"] = "metadata"]
       ELSE /\ uh_pc' = "idle"
            /\ sv_pc' = sv_pc
  /\ UNCHANGED <<store, bp_slot, updates, uh_update, rpc_slot, gh_pending, gh_count,
                 follower, f_out, f_running, f_closed, f_applied, f_injected,
                 twinVars, sessionVars, hashVars, bpVars, disk, sv_keys, sv_ops, durVars, auxVars>>

\* ctrl_c: the main task starts the shutdown save.
Shutdown ==
  /\ sv_pc["shutdown"] = "idle"
  /\ sv_pc' = [sv_pc EXCEPT !["shutdown"] = "metadata"]
  /\ UNCHANGED <<leaderVars, followerVars, twinVars, sessionVars, hashVars, bpVars,
                 disk, sv_keys, sv_ops, durVars, auxVars>>

\* The saver builds the ChainMetadata and calls save_metadata.
Save_Metadata(w) ==
  /\ sv_pc[w] = "metadata"
  /\ LET metadata ==
           IF w = "periodic"
             THEN ChainMetadata(uh_update.slot, uh_update.blockhash,
                                Cardinality(DOMAIN store))
             ELSE ChainMetadata(rpc_slot, rpc_hash, Cardinality(DOMAIN store))
     IN disk' = save_metadata(disk, metadata)
  /\ sv_ops' = [sv_ops EXCEPT ![w] = <<"metadata">>]
  /\ sv_pc' = [sv_pc EXCEPT ![w] = "pubkeys"]
  /\ UNCHANGED <<leaderVars, followerVars, twinVars, sessionVars, hashVars, bpVars,
                 sv_keys, durVars, auxVars>>

\* save_to_disk: get_all_pubkeys.
Save_Pubkeys(w) ==
  /\ sv_pc[w] = "pubkeys"
  /\ sv_keys' = [sv_keys EXCEPT ![w] = DOMAIN store]
  /\ sv_pc' = [sv_pc EXCEPT ![w] = "accounts"]
  /\ UNCHANGED <<leaderVars, followerVars, twinVars, sessionVars, hashVars, bpVars,
                 disk, sv_ops, durVars, auxVars>>

\* save_to_disk: one iteration of the loop, in the map's iteration order.
Save_Account(w) ==
  /\ sv_pc[w] = "accounts"
  /\ \E pubkey \in sv_keys[w] :
       /\ disk' = PersistentStore_store_account(disk, pubkey, store[pubkey])
       /\ sv_keys' = [sv_keys EXCEPT ![w] = @ \ {pubkey}]
  /\ sv_ops' = [sv_ops EXCEPT ![w] = Append(@, "account")]
  /\ UNCHANGED <<leaderVars, followerVars, twinVars, sessionVars, hashVars, bpVars,
                 sv_pc, durVars, auxVars>>

\* save_to_disk: the flush after the loop; the update handler goes back to
\* its recv, the main task goes on to abort the tasks.
Save_Flush(w) ==
  /\ sv_pc[w] = "accounts"
  /\ sv_keys[w] = {}
  /\ sv_ops' = [sv_ops EXCEPT ![w] = Append(@, "flush")]
  /\ sv_pc' = [sv_pc EXCEPT ![w] = IF w = "periodic" THEN "idle" ELSE "done"]
  /\ uh_pc' = IF w = "periodic" THEN "idle" ELSE uh_pc
  /\ durable' = disk
  /\ disk_done' = <<disk>>
  /\ UNCHANGED <<leader, server, log, store, snaps, bp_slot, updates, uh_update,
                 rpc_slot, gh_pending, gh_count, followerVars, twinVars, sessionVars,
                 hashVars, bpVars, disk, sv_keys, restarts, auxVars>>

Save ==
  \E w \in Savers :
    Save_Metadata(w) \/ Save_Pubkeys(w) \/ Save_Account(w) \/ Save_Flush(w)

NextSnapshot ==
  \/ Running /\ IdleTick
  \/ Running /\ UH_Begin
  \/ Running /\ UH_EndSave
  \/ Running /\ GH_Store
  \/ Running /\ GH_Record
  \/ Shutdown
  \/ Save

SpecSnapshot == Init /\ [][NextSnapshot]_vars

\* ------------------------------------------------- kill and restart
\* PersistentStore::load_metadata: the "chain" entry, if there is one.
load_metadata(d) == d.metadata

\* load_from_disk: every persisted (pubkey, account, slot) is stored into the
\* account store.
load_from_disk(s, d) ==
  [k \in (DOMAIN s) \cup (DOMAIN d.accounts) |->
     IF k \in DOMAIN d.accounts
       THEN [account |-> bincode_deserialize(d.accounts[k].account),
             slot |-> from_le_bytes(d.accounts[k].slot)]
       ELSE s[k]]

\* sled's background flusher (sled::open, default configuration): everything
\* inserted so far reaches the file.
Sled_Flush ==
  /\ durable # disk
  /\ durable' = disk
  /\ UNCHANGED <<leaderVars, followerVars, twinVars, sessionVars, hashVars, bpVars,
                 disk, sv_pc, sv_keys, sv_ops, disk_done, restarts, auxVars>>

\* The leader process is killed and run_leader starts again on the same data
\* directory: the store is loaded if metadata is there, every other piece of
\* state is constructed as at the first start.
KillRestart ==
  /\ restarts < MaxRestarts
  /\ restarts' = restarts + 1
  /\ disk' = durable
  /\ store' = IF load_metadata(durable) # <<>>
                THEN load_from_disk(EmptyStore, durable) ELSE EmptyStore
  /\ leader' = LeaderNode_new
  /\ server' = [messages_broadcast |-> 0, receivers |-> 0]
  /\ log' = <<>>
  /\ snaps' = <<>>
  /\ bp_slot' = 0
  /\ updates' = <<>>
  /\ uh_pc' = "idle"
  /\ uh_update' = NoUpdate
  /\ rpc_slot' = 0
  /\ gh_pending' = <<>>
  /\ tx_queue' = <<>>
  /\ bp_hash' = uniq
  /\ rpc_hash' = uniq + 1
  /\ uniq' = uniq + 2
  /\ bp_alive' = TRUE
  /\ send_result' = "none"
  /\ sv_pc' = [w \in Savers |-> "idle"]
  /\ sv_keys' = [w \in Savers |-> {}]
  /\ sv_ops' = [w \in Savers |-> <<>>]
  /\ UNCHANGED <<gh_count, followerVars, twinVars, sessionVars, hashVars,
                 max_txs, n_sent, durable, disk_done, auxVars>>

NextRestart ==
  \/ Running /\ IdleTick
  \/ Running /\ UH_Begin
  \/ Running /\ UH_EndSave
  \/ Running /\ GH_Store
  \/ Running /\ GH_Record
  \/ Save
  \/ Sled_Flush
  \/ KillRestart

SpecRestart == Init /\ [][NextRestart]_vars

\* --------------------------------------------- save and load, one thread
MaxStoreOps == 3

\* AccountStore::remove_account.
remove_account(s, pubkey) == [k \in (DOMAIN s) \ {pubkey} |-> s[k]]

\* save_to_disk run to its end with no other thread at work: every account of
\* the store is written under its pubkey; nothing else on disk is touched.
RECURSIVE save_accounts(_, _, _)
save_accounts(s, keys, d) ==
  IF keys = {} THEN d
  ELSE LET k == CHOOSE x \in keys : TRUE
       IN save_accounts(s, keys \ {k}, PersistentStore_store_account(d, k, s[k]))

save_to_disk(s, d) == save_accounts(s, DOMAIN s, d)

RT_Store ==
  /\ rt_ops < MaxStoreOps
  /\ \E k \in Keys, a \in Accounts, slot \in 0..1 :
       store' = store_account(store, k, a, slot)
  /\ rt_ops' = rt_ops + 1
  /\ rt_loaded' = <<>>
  /\ UNCHANGED <<leader, server, log, snaps, bp_slot, updates, uh_pc, uh_update,
                 rpc_slot, gh_pending, gh_count, followerVars, twinVars, sessionVars,
                 hashVars, bpVars, snapVars, rtOthers>>

RT_Remove ==
  /\ rt_ops < MaxStoreOps
  /\ \E k \in Keys : store' = remove_account(store, k)
  /\ rt_ops' = rt_ops + 1
  /\ rt_loaded' = <<>>
  /\ UNCHANGED <<leader, server, log, snaps, bp_slot, updates, uh_pc, uh_update,
                 rpc_slot, gh_pending, gh_count, followerVars, twinVars, sessionVars,
                 hashVars, bpVars, snapVars, rtOthers>>

\* save_metadata and save_to_disk, then load_metadata and load_from_disk into
\* an empty account store.
RT_SaveLoad ==
  /\ rt_loaded = <<>>
  /\ LET metadata == ChainMetadata(rt_ops, rt_ops + 1, Cardinality(DOMAIN store))
         d == save_to_disk(store, save_metadata(disk, metadata))
     IN /\ disk' = d
        /\ durable' = d
        /\ rt_loaded' = <<[store |-> load_from_disk(EmptyStore, d),
                           saved |-> metadata,
                           metadata |-> load_metadata(d)]>>
  /\ UNCHANGED <<leaderVars, followerVars, twinVars, sessionVars, hashVars, bpVars,
                 sv_pc, sv_keys, sv_ops, disk_done, restarts, rt_ops, rtOthers>>

NextRoundTrip ==
  \/ RT_Store
  \/ RT_Remove
  \/ RT_SaveLoad

SpecRoundTrip == Init /\ [][NextRoundTrip]_vars

\* ------------------------ AccountStore at one key, a writer and a reader
MaxReads == 2

asOthers ==
  <<leaderVars, followerVars, twinVars, sessionVars, hashVars, bpVars, snapVars, rtVars,
    cbVars, notifyVars, fanVars, stopVars, lateVars>>

\* The writer enters store_account(k, a, s) or remove_account(k); each call
\* of store_account carries its own slot.
AS_Call ==
  /\ as_w.pc = "idle"
  /\ as_w.calls < MaxStoreOps
  /\ \/ \E a \in Accounts :
          /\ as_w' = [pc |-> "accounts.insert", calls |-> as_w.calls + 1,
                      account |-> a, slot |-> as_w.calls + 1]
          /\ as_written' = as_written \cup {[account |-> a, slot |-> as_w.calls + 1]}
     \/ /\ as_w' = [pc |-> "account_slots.remove", calls |-> as_w.calls + 1]
        /\ as_written' = as_written
  /\ UNCHANGED <<asOthers, as_accounts, as_slots, as_r, as_result>>

\* store_account: self.accounts.insert(pubkey, account).  The insert needs
\* the shard's write lock, which a reader's Ref keeps it from.
AS_InsertAccount ==
  /\ as_w.pc = "accounts.insert"
  /\ as_r.pc # "account_slots.get"
  /\ as_accounts' = <<as_w.account>>
  /\ as_w' = [as_w EXCEPT !.pc = "account_slots.insert"]
  /\ UNCHANGED <<asOthers, as_slots, as_r, as_written, as_result>>

\* store_account: self.account_slots.insert(pubkey, slot).
AS_InsertSlot ==
  /\ as_w.pc = "account_slots.insert"
  /\ as_slots' = <<as_w.slot>>
  /\ as_w' = [pc |-> "idle", calls |-> as_w.calls]
  /\ UNCHANGED <<asOthers, as_accounts, as_r, as_written, as_result>>

\* remove_account: self.account_slots.remove(pubkey).
AS_RemoveSlot ==
  /\ as_w.pc = "account_slots.remove"
  /\ as_slots' = <<>>
  /\ as_w' = [as_w EXCEPT !.pc = "accounts.remove"]
  /\ UNCHANGED <<asOthers, as_accounts, as_r, as_written, as_result>>

\* remove_account: self.accounts.remove(pubkey).
AS_RemoveAccount ==
  /\ as_w.pc = "accounts.remove"
  /\ as_r.pc # "account_slots.get"
  /\ as_accounts' = <<>>
  /\ as_w' = [pc |-> "idle", calls |-> as_w.calls]
  /\ UNCHANGED <<asOthers, as_slots, as_r, as_written, as_result>>

\* get_account_with_slot: self.accounts.get(pubkey)?, the Ref kept.
AS_GetAccount ==
  /\ as_r.pc = "idle"
  /\ as_r.calls < MaxReads
  /\ IF as_accounts = <<>>
       THEN /\ as_result' = <<>>
            /\ as_r' = [pc |-> "idle", calls |-> as_r.calls + 1]
       ELSE /\ as_result' = as_result
            /\ as_r' = [pc |-> "account_slots.get", calls |-> as_r.calls + 1,
                        account |-> as_accounts[1]]
  /\ UNCHANGED <<asOthers, as_accounts, as_slots, as_w, as_written>>

\* get_account_with_slot: self.account_slots.get(pubkey), 0 when absent.
AS_GetSlot ==
  /\ as_r.pc = "account_slots.get"
  /\ as_result' = <<[account |-> as_r.account,
                      slot |-> IF as_slots = <<>> THEN 0 ELSE as_slots[1]]>>
  /\ as_r' = [pc |-> "idle", calls |-> as_r.calls]
  /\ UNCHANGED <<asOthers, as_accounts, as_slots, as_w, as_written>>

NextAtom ==
  \/ AS_Call
  \/ AS_InsertAccount
  \/ AS_InsertSlot
  \/ AS_RemoveSlot
  \/ AS_RemoveAccount
  \/ AS_GetAccount
  \/ AS_GetSlot

SpecAtom == Init /\ [][NextAtom]_vars

\* ------------------------------------- the account loader (callback.rs)
\* Pubkey::is_on_curve: key 1 is a wallet address, key 2 a derived address.
is_on_curve(pubkey) == pubkey = 1

system_program_id == 0
world_program_id == 2

\* WorldPlayer::LEN, scaled.
WorldPlayerLEN == 2

\* AccountSharedData::new(lamports, space, owner): zeroed data of that length.
AccountSharedData_new(lamports, space, owner) ==
  [lamports |-> lamports, data |-> [i \in 1..space |-> 0], owner |-> owner,
   executable |-> FALSE, rent_epoch |-> 0]

\* Faulty variant: every missing account is given the derived-address default.
get_account_shared_data_pda(s, pubkey) ==
  IF pubkey \in DOMAIN s THEN s[pubkey].account
  ELSE AccountSharedData_new(1, WorldPlayerLEN, world_program_id)

\* L2AccountLoader::get_account_shared_data (the lamports of the default
\* account, 1_000_000_000, stand as 1).
get_account_shared_data(s, pubkey) ==
  IF pubkey \in DOMAIN s THEN s[pubkey].account
  ELSE IF ~is_on_curve(pubkey)
    THEN AccountSharedData_new(1, WorldPlayerLEN, world_program_id)
    ELSE AccountSharedData_new(1, 0, system_program_id)

CB_Get ==
  /\ \E pubkey \in Keys :
       cb_out' = <<[pubkey |-> pubkey,
                    account |-> get_account_shared_data(store, pubkey)]>>
  /\ UNCHANGED <<leaderVars, followerVars, twinVars, sessionVars, hashVars, bpVars,
                 snapVars, rtVars, atomVars, notifyVars, fanVars, stopVars, lateVars>>

NextLoader ==
  \/ RT_Store
  \/ RT_Remove
  \/ CB_Get

SpecLoader == Init /\ [][NextLoader]_vars

\* ------------------------------------------- account subscriptions
NotifyCap == 2        \* broadcast::channel(64) of a subscription, scaled
MaxNotifySlots == 2   \* ticks taken with a subscriber present
MaxSubscribes == 1    \* accountSubscribe requests made

NotifyTxs == {[success |-> TRUE, accounts |-> <<<<k, a>>>>] : k \in TxKeys, a \in Accounts}

NotifyBatches ==
  {<<>>} \cup {<<t>> : t \in NotifyTxs}
         \cup {<<t, u>> : t, u \in {n \in NotifyTxs : n.accounts[1][1] = 1}}

\* broadcast::Sender::send: the value is queued; a full channel overwrites its
\* oldest value and the receiver will be told it lagged.
channel_send(chan, value) ==
  IF Len(chan.buffer) >= NotifyCap
    THEN [buffer |-> Append(Tail(chan.buffer), value), lagged |-> TRUE]
    ELSE [buffer |-> Append(chan.buffer, value), lagged |-> chan.lagged]

\* SubscriptionManager::notify_account_update with one subscription.
notify_account_update(sub, chan, pubkey, slot, account) ==
  IF sub # <<>> /\ sub[1].pubkey = pubkey
    THEN channel_send(chan, [subscription_id |-> sub[1].id, pubkey |-> pubkey,
                             slot |-> slot, account |-> account])
    ELSE chan

\* Faulty variant: the accounts of an update are notified last to first.
RECURSIVE notify_update_reversed(_, _, _, _)
notify_update_reversed(sub, chan, slot, accounts) ==
  IF accounts = <<>> THEN chan
  ELSE notify_account_update(sub, notify_update_reversed(sub, chan, slot, Tail(accounts)),
                             Head(accounts)[1], slot, Head(accounts)[2])

\* The update handler's loop over update.modified_accounts.
RECURSIVE notify_update(_, _, _, _)
notify_update(sub, chan, slot, accounts) ==
  IF accounts = <<>> THEN chan
  ELSE notify_update(sub,
                     notify_account_update(sub, chan, Head(accounts)[1], slot,
                                           Head(accounts)[2]),
                     slot, Tail(accounts))

RECURSIVE Commits(_, _)
Commits(slot, accounts) ==
  IF accounts = <<>> THEN <<>>
  ELSE <<[pubkey |-> Head(accounts)[1], slot |-> slot, account |-> Head(accounts)[2]]>>
         \o Commits(slot, Tail(accounts))

\* A tick whose batch may hold two successful transactions; the commits it
\* makes are also kept in nt_commits.
NT_Tick ==
  /\ bp_alive
  /\ bp_slot < MaxNotifySlots
  /\ Len(updates) < MaxPending
  /\ \E txs \in NotifyBatches :
       /\ TickCore(txs)
       /\ nt_commits' = nt_commits
            \o Commits(bp_slot + 1, Modified(process_output(store, txs, bp_slot).results))
  /\ UNCHANGED <<leader, server, log, snaps, uh_pc, uh_update, rpc_slot, gh_pending,
                 gh_count, followerVars, twinVars, sessionVars, hashVars, snapVars,
                 tx_queue, max_txs, bp_alive, rpc_hash, send_result, n_sent,
                 rtVars, atomVars, cbVars, fanVars, stopVars, lateVars, nt_sub, nt_next, nt_chan, nt_recv>>

\* The update handler: recv, begin_slot, slot and blockhash published, then
\* the notifications of the update's modified accounts.
UH_BeginNotify ==
  /\ uh_pc = "idle"
  /\ updates # <<>>
  /\ \E now \in Times : leader' = begin_slot(leader, Head(updates).slot, now)
  /\ uh_update' = Head(updates)
  /\ updates' = Tail(updates)
  /\ rpc_slot' = Head(updates).slot
  /\ rpc_hash' = Head(updates).blockhash
  /\ nt_chan' = notify_update(nt_sub, nt_chan, Head(updates).slot,
                               Head(updates).modified_accounts)
  /\ uh_pc' = "open"
  /\ UNCHANGED <<server, log, store, snaps, bp_slot, gh_pending, gh_count,
                 followerVars, twinVars, sessionVars, hashVars, snapVars,
                 tx_queue, max_txs, bp_hash, uniq, bp_alive, send_result, n_sent,
                 rtVars, atomVars, cbVars, fanVars, stopVars, lateVars, nt_sub, nt_next, nt_recv, nt_commits>>

\* accountSubscribe: subscribe_account and the forwarding task.
NT_Subscribe ==
  /\ nt_sub = <<>>
  /\ nt_next <= MaxSubscribes
  /\ \E pubkey \in Keys : nt_sub' = <<[id |-> nt_next, pubkey |-> pubkey]>>
  /\ nt_next' = nt_next + 1
  /\ nt_chan' = [buffer |-> <<>>, lagged |-> FALSE]
  /\ UNCHANGED <<leaderVars, followerVars, twinVars, sessionVars, hashVars, bpVars,
                 snapVars, rtVars, atomVars, cbVars, fanVars, stopVars, lateVars, nt_recv, nt_commits>>

\* accountUnsubscribe: the Subscription and with it the Sender are dropped.
NT_Unsubscribe ==
  /\ nt_sub # <<>>
  /\ nt_sub' = <<>>
  /\ UNCHANGED <<leaderVars, followerVars, twinVars, sessionVars, hashVars, bpVars,
                 snapVars, rtVars, atomVars, cbVars, fanVars, stopVars, lateVars, nt_next, nt_chan, nt_recv,
                 nt_commits>>

\* The forwarding task's receiver.recv(): the next notification, or the
\* Lagged error that ends its loop (what is still buffered is never read).
NT_Recv ==
  /\ nt_chan.buffer # <<>>
  /\ IF nt_chan.lagged
       THEN /\ nt_chan' = [buffer |-> <<>>, lagged |-> FALSE]
            /\ nt_recv' = nt_recv
       ELSE /\ nt_chan' = [nt_chan EXCEPT !.buffer = Tail(@)]
            /\ nt_recv' = Append(nt_recv, Head(nt_chan.buffer))
  /\ UNCHANGED <<leaderVars, followerVars, twinVars, sessionVars, hashVars, bpVars,
                 snapVars, rtVars, atomVars, cbVars, fanVars, stopVars, lateVars, nt_sub, nt_next, nt_commits>>

NextNotify ==
  \/ NT_Tick
  \/ UH_BeginNotify
  \/ UH_End
  \/ NT_Subscribe
  \/ NT_Unsubscribe
  \/ NT_Recv

SpecNotify == Init /\ [][NextNotify]_vars

\* ------------------------------------------------ broadcast fan-out
BroadcastCap == 2     \* broadcast::channel(1000) of the server, scaled
MaxBroadcasts == 4    \* frames the leader broadcasts

Heartbeat(slot) == [type |-> "Heartbeat", slot |-> slot]

\* The oldest frame the channel still holds for the session's receiver.
oldest_retained(sess, frames) ==
  IF Len(frames) - BroadcastCap + 1 > sess.start
    THEN Len(frames) - BroadcastCap + 1 ELSE sess.start

\* Faulty variant: the forwarding task ends when its receiver lagged.
send_task_break(sess, frames) ==
  IF sess.next < oldest_retained(sess, frames)
    THEN [sess EXCEPT !.lagged = @ + (oldest_retained(sess, frames) - sess.next),
                      !.next = oldest_retained(sess, frames),
                      !.running = FALSE]
    ELSE [sess EXCEPT !.wire = Append(@, frames[sess.next]), !.next = @ + 1]

\* One iteration of send_task: rx.recv() gives the next frame, which is sent
\* on the socket, or Lagged(n), which is logged; the receiver then stands at
\* the oldest frame the channel holds.
send_task(sess, frames) ==
  IF sess.next < oldest_retained(sess, frames)
    THEN [sess EXCEPT !.lagged = @ + (oldest_retained(sess, frames) - sess.next),
                      !.next = oldest_retained(sess, frames)]
    ELSE [sess EXCEPT !.wire = Append(@, frames[sess.next]), !.next = @ + 1]

\* broadcast_state_change / broadcast_heartbeat: tx.send of the frame.  The
\* frames of one leader carry increasing slots.
FO_Broadcast ==
  /\ Len(fo_log) < MaxBroadcasts
  /\ \E type \in {"StateChange", "Heartbeat"} :
       fo_log' = Append(fo_log, [type |-> type, slot |-> Len(fo_log) + 1])
  /\ UNCHANGED <<leaderVars, followerVars, twinVars, sessionVars, hashVars, bpVars,
                 snapVars, rtVars, atomVars, cbVars, notifyVars, stopVars, lateVars, fo_sess>>

\* The accept loop: tx.subscribe() for the new connection, then the
\* session's forwarding task is spawned.
FO_Accept ==
  /\ ~fo_sess.open
  /\ fo_sess.sessions < MaxSessions
  /\ fo_sess' = [open |-> TRUE, sessions |-> fo_sess.sessions + 1,
                 start |-> Len(fo_log) + 1, next |-> Len(fo_log) + 1,
                 wire |-> <<>>, lagged |-> 0, running |-> TRUE]
  /\ UNCHANGED <<leaderVars, followerVars, twinVars, sessionVars, hashVars, bpVars,
                 snapVars, rtVars, atomVars, cbVars, notifyVars, stopVars, lateVars, fo_log>>

FO_Forward ==
  /\ fo_sess.open
  /\ fo_sess.running
  /\ fo_sess.next <= Len(fo_log)
  /\ fo_sess' = send_task(fo_sess, fo_log)
  /\ UNCHANGED <<leaderVars, followerVars, twinVars, sessionVars, hashVars, bpVars,
                 snapVars, rtVars, atomVars, cbVars, notifyVars, stopVars, lateVars, fo_log>>

\* The validator closes its socket: the read loop ends and the cleanup
\* aborts the forwarding task.
FO_Close ==
  /\ fo_sess.open
  /\ fo_sess' = [fo_sess EXCEPT !.open = FALSE, !.running = FALSE]
  /\ UNCHANGED <<leaderVars, followerVars, twinVars, sessionVars, hashVars, bpVars,
                 snapVars, rtVars, atomVars, cbVars, notifyVars, stopVars, lateVars, fo_log>>

NextFanout ==
  \/ FO_Broadcast
  \/ FO_Accept
  \/ FO_Forward
  \/ FO_Close

\* The forwarding task is a tokio task: it runs when its receiver has input.
SpecFanout == Init /\ [][NextFanout]_vars /\ WF_vars(FO_Forward)

\* ------------------------------------------------ BlockProducer::stop
\* stop takes &self, run takes &mut self and run_async takes self, and the
\* running flag has no other handle: the owner can call stop only while the
\* run loop is not executing.
SD_Others ==
  <<leaderVars, followerVars, twinVars, sessionVars, hashVars, bpVars, snapVars,
    rtVars, atomVars, cbVars, notifyVars, fanVars, lateVars>>

\* TransactionSender::send on a queue with room.
SD_Submit ==
  /\ sd_bp.sent < MaxSubmits
  /\ sd_bp.queue < QueueCap
  /\ sd_bp' = [sd_bp EXCEPT !.queue = @ + 1, !.sent = @ + 1]
  /\ UNCHANGED SD_Others

\* BlockProducer::stop.
SD_Stop ==
  /\ sd_bp.pc \in {"new", "returned"}
  /\ ~sd_bp.stopped
  /\ sd_bp' = [sd_bp EXCEPT !.running = FALSE, !.stopped = TRUE]
  /\ UNCHANGED SD_Others

\* run / run_async entered: running is set.
SD_Run ==
  /\ sd_bp.pc = "new"
  /\ sd_bp' = [sd_bp EXCEPT !.running = TRUE, !.pc = "test"]
  /\ UNCHANGED SD_Others

\* The loop condition: a tick starts, or the function returns.
SD_Test ==
  /\ sd_bp.pc = "test"
  /\ sd_bp.running => sd_bp.slot < MaxSlot
  /\ sd_bp' = IF sd_bp.running
                THEN [sd_bp EXCEPT !.pc = "drain",
                        !.ticks_after_stop = IF sd_bp.stopped THEN @ + 1 ELSE @]
                ELSE [sd_bp EXCEPT !.pc = "returned"]
  /\ UNCHANGED SD_Others

\* The drain loop of the tick.
SD_Drain ==
  /\ sd_bp.pc = "drain"
  /\ LET n == IF sd_bp.queue < MaxTxsPerBlock THEN sd_bp.queue ELSE MaxTxsPerBlock IN
     sd_bp' = [sd_bp EXCEPT !.pending = n, !.queue = @ - n, !.pc = "process"]
  /\ UNCHANGED SD_Others

\* The rest of the tick: process_transactions, advance_slot, the BlockUpdate.
SD_Finish ==
  /\ sd_bp.pc = "process"
  /\ sd_bp' = [sd_bp EXCEPT !.pending = 0, !.slot = @ + 1, !.updates = @ + 1,
                            !.pc = "test"]
  /\ UNCHANGED SD_Others

NextStop ==
  \/ SD_Submit
  \/ SD_Stop
  \/ SD_Run
  \/ SD_Test
  \/ SD_Drain
  \/ SD_Finish

SpecStop == Init /\ [][NextStop]_vars

\* ------------------------------------------- AccountStore, one thread
\* The store as its two DashMaps, each a function from the keys it holds.
MapPut(m, k, v) == [x \in (DOMAIN m) \cup {k} |-> IF x = k THEN v ELSE m[x]]
MapDel(m, k) == [x \in (DOMAIN m) \ {k} |-> m[x]]

AccountStore_store_account(st, pubkey, account, slot) ==
  [st EXCEPT !.accounts = MapPut(@, pubkey, account),
             !.account_slots = MapPut(@, pubkey, slot)]

\* Faulty variant: the account is removed and its slot entry is left behind.
remove_account_keep_slot(st, pubkey) ==
  [st EXCEPT !.accounts = MapDel(@, pubkey)]

AccountStore_remove_account(st, pubkey) ==
  [st EXCEPT !.account_slots = MapDel(@, pubkey),
             !.accounts = MapDel(@, pubkey)]

AccountStore_clear(st) ==
  [st EXCEPT !.accounts = <<>>, !.account_slots = <<>>]

\* None is <<>>, Some((account, slot)) a one-element sequence.
get_account_with_slot(st, pubkey) ==
  IF pubkey \notin DOMAIN st.accounts THEN <<>>
  ELSE <<[account |-> st.accounts[pubkey],
          slot |-> IF pubkey \in DOMAIN st.account_slots
                     THEN st.account_slots[pubkey] ELSE 0]>>

account_exists(st, pubkey) == pubkey \in DOMAIN st.accounts
AccountStore_len(st) == Cardinality(DOMAIN st.accounts)
get_all_pubkeys(st) == DOMAIN st.accounts

AM_Others == <<baseVars, sm, mo_out, vm, lg, ex, wd>>

AM_Store ==
  /\ Len(am.calls) < MaxStoreOps
  /\ \E k \in Keys, a \in Accounts, slot \in 0..1 :
       am' = [AccountStore_store_account(am, k, a, slot) EXCEPT
                !.calls = Append(@, [op |-> "store_account", pubkey |-> k,
                                     account |-> a, slot |-> slot])]
  /\ UNCHANGED AM_Others

AM_Remove ==
  /\ Len(am.calls) < MaxStoreOps
  /\ \E k \in Keys :
       am' = [AccountStore_remove_account(am, k) EXCEPT
                !.calls = Append(@, [op |-> "remove_account", pubkey |-> k])]
  /\ UNCHANGED AM_Others

AM_Clear ==
  /\ Len(am.calls) < MaxStoreOps
  /\ am' = [AccountStore_clear(am) EXCEPT !.calls = Append(@, [op |-> "clear"])]
  /\ UNCHANGED AM_Others

NextMap ==
  \/ AM_Store
  \/ AM_Remove
  \/ AM_Clear

SpecMap == Init /\ [][NextMap]_vars

\* ------------------------------------------------ SubscriptionManager
MaxSubOps == 4        \* calls made on the SubscriptionManager

\* subscribe_account: the id is next_id, which is advanced; the Subscription
\* is inserted and the id pushed on the key's list.  receivers holds what
\* each returned Receiver has been sent.
subscribe_account(m, pubkey) ==
  LET id == m.next_id IN
  [m |-> [m EXCEPT
            !.next_id = @ + 1,
            !.subscriptions = MapPut(@, id, [id |-> id, pubkey |-> pubkey]),
            !.pubkey_subscriptions =
               MapPut(@, pubkey, IF pubkey \in DOMAIN @ THEN Append(@[pubkey], id)
                                                         ELSE <<id>>),
            !.receivers = MapPut(@, id, <<>>)],
   result |-> id]

\* Faulty variant: the id is taken off the key's list and the Subscription
\* is left in the map.
unsubscribe_index_only(m, subscription_id) ==
  IF subscription_id \in DOMAIN m.subscriptions
    THEN LET pubkey == m.subscriptions[subscription_id].pubkey IN
         [m |-> [m EXCEPT
                   !.pubkey_subscriptions =
                      IF pubkey \in DOMAIN @
                        THEN [@ EXCEPT ![pubkey] =
                                SelectSeq(@, LAMBDA id : id # subscription_id)]
                        ELSE @],
          result |-> TRUE]
    ELSE [m |-> m, result |-> FALSE]

unsubscribe(m, subscription_id) ==
  IF subscription_id \in DOMAIN m.subscriptions
    THEN LET pubkey == m.subscriptions[subscription_id].pubkey IN
         [m |-> [m EXCEPT
                   !.subscriptions = MapDel(@, subscription_id),
                   !.pubkey_subscriptions =
                      IF pubkey \in DOMAIN @
                        THEN [@ EXCEPT ![pubkey] =
                                SelectSeq(@, LAMBDA id : id # subscription_id)]
                        ELSE @],
          result |-> TRUE]
    ELSE [m |-> m, result |-> FALSE]

\* The loop of notify_account_update over the ids listed for the key.
RECURSIVE notify_ids(_, _, _, _, _)
notify_ids(m, sub_ids, pubkey, slot, account) ==
  IF sub_ids = <<>> THEN m
  ELSE LET sub_id == Head(sub_ids)
           sent == IF sub_id \in DOMAIN m.subscriptions
                     THEN [m EXCEPT !.receivers[sub_id] =
                             Append(@, [subscription_id |-> sub_id, pubkey |-> pubkey,
                                        slot |-> slot, account |-> account])]
                     ELSE m
       IN notify_ids(sent, Tail(sub_ids), pubkey, slot, account)

SubscriptionManager_notify(m, pubkey, slot, account) ==
  IF pubkey \in DOMAIN m.pubkey_subscriptions
    THEN notify_ids(m, m.pubkey_subscriptions[pubkey], pubkey, slot, account)
    ELSE m

SM_Others == <<baseVars, am, mo_out, vm, lg, ex, wd>>

SM_Subscribe ==
  /\ Len(sm.calls) < MaxSubOps
  /\ \E pubkey \in Keys :
       LET r == subscribe_account(sm, pubkey) IN
       sm' = [r.m EXCEPT !.calls = Append(@, [op |-> "subscribe_account",
                                              pubkey |-> pubkey, result |-> r.result])]
  /\ UNCHANGED SM_Others

SM_Unsubscribe ==
  /\ Len(sm.calls) < MaxSubOps
  /\ \E id \in 1..MaxSubOps :
       LET r == unsubscribe(sm, id) IN
       sm' = [r.m EXCEPT !.calls = Append(@, [op |-> "unsubscribe", id |-> id,
                                              result |-> r.result])]
  /\ UNCHANGED SM_Others

SM_Notify ==
  /\ Len(sm.calls) < MaxSubOps
  /\ \E pubkey \in Keys :
       sm' = [SubscriptionManager_notify(sm, pubkey, Len(sm.calls), MkAccount(1))
                EXCEPT !.calls = Append(@, [op |-> "notify_account_update",
                                            pubkey |-> pubkey, slot |-> Len(sm.calls)])]
  /\ UNCHANGED SM_Others

NextSubs ==
  \/ SM_Subscribe
  \/ SM_Unsubscribe
  \/ SM_Notify

SpecSubs == Init /\ [][NextSubs]_vars

\* --------------------------------------------- account_matches_owners
\* Candidate owner lists: up to two program ids, repeats included.
OwnerIds == {system_program_id, 1, world_program_id}
OwnerLists == {<<>>} \cup {<<a>> : a \in OwnerIds} \cup {<<a, b>> : a, b \in OwnerIds}

\* owners.iter().position(|candidate| candidate == owner): None is <<>>,
\* Some(i) is <<i>> with i counted from 0.
RECURSIVE position(_, _)
position(owners, owner) ==
  IF owners = <<>> THEN <<>>
  ELSE IF Head(owners) = owner THEN <<0>>
  ELSE LET rest == position(Tail(owners), owner) IN
       IF rest = <<>> THEN <<>> ELSE <<rest[1] + 1>>

\* Faulty variant: every missing account is taken to be system-owned.
account_matches_owners_system(s, account, owners) ==
  IF account \in DOMAIN s THEN position(owners, s[account].account.owner)
  ELSE position(owners, system_program_id)

account_matches_owners(s, account, owners) ==
  IF account \in DOMAIN s THEN position(owners, s[account].account.owner)
  ELSE position(owners, IF ~is_on_curve(account) THEN world_program_id
                                                  ELSE system_program_id)

MO_Match ==
  /\ \E account \in Keys, owners \in OwnerLists :
       mo_out' = <<[account |-> account, owners |-> owners,
                    result |-> account_matches_owners(store, account, owners)]>>
  /\ UNCHANGED <<baseVars, am, sm, vm, lg, ex, wd>>

NextOwners ==
  \/ RT_Store
  \/ RT_Remove
  \/ MO_Match

SpecOwners == Init /\ [][NextOwners]_vars

\* ------------------------------------------- validator session map
\* A connection handler: "none" (no connection), "handshake" (spawned,
\* accept_async pending), "open" (registered, read loop running), "done"
\* (handle_validator_connection returned).  No await separates the end of
\* the handshake from the insert, nor the end of the read loop from the
\* cleanup.
VM_Others == <<baseVars, am, sm, mo_out, lg, ex, wd>>

connected_validators(validators) == Cardinality(DOMAIN validators)

\* Faulty variant: the cleanup empties the map.
cleanup_all(validators, temp_id) == <<>>

\* The cleanup's validators.write().remove(&temp_id).
cleanup(validators, temp_id) == MapDel(validators, temp_id)

\* The accept loop takes a connection and spawns its handler.
VM_Accept ==
  /\ vm.accepted < MaxConnects
  /\ \E c \in Conns :
       /\ vm.conn[c].pc \in {"none", "done"}
       /\ vm' = [vm EXCEPT !.accepted = @ + 1,
                           !.conn[c] = [pc |-> "handshake", temp_id |-> 0,
                                        send_task |-> "none"]]
  /\ UNCHANGED VM_Others

\* accept_async succeeded: the validator is registered under a fresh
\* temp_id and the forwarding task is spawned.
VM_Register ==
  /\ \E c \in Conns :
       /\ vm.conn[c].pc = "handshake"
       /\ vm' = [vm EXCEPT
                   !.validators = MapPut(@, vm.next_unique, [last_verified_slot |-> 0]),
                   !.next_unique = @ + 1,
                   !.conn[c] = [pc |-> "open", temp_id |-> vm.next_unique,
                                send_task |-> "running"]]
  /\ UNCHANGED VM_Others

\* accept_async failed: the handler returns the error.
VM_HandshakeFails ==
  /\ \E c \in Conns :
       /\ vm.conn[c].pc = "handshake"
       /\ vm' = [vm EXCEPT !.conn[c].pc = "done"]
  /\ UNCHANGED VM_Others

\* ws_sender.send failed: the forwarding task breaks out of its loop.
VM_SendFails ==
  /\ \E c \in Conns :
       /\ vm.conn[c].pc = "open"
       /\ vm.conn[c].send_task = "running"
       /\ vm' = [vm EXCEPT !.conn[c].send_task = "ended"]
  /\ UNCHANGED VM_Others

\* The read loop ends (Close, transport error or end of stream): the
\* forwarding task is aborted and the validator removed.
VM_End ==
  /\ \E c \in Conns, how \in {"Close", "Err", "None"} :
       /\ vm.conn[c].pc = "open"
       /\ vm' = [vm EXCEPT
                   !.validators = cleanup(@, vm.conn[c].temp_id),
                   !.conn[c].pc = "done",
                   !.conn[c].send_task = "aborted"]
  /\ UNCHANGED VM_Others

NextValidators ==
  \/ VM_Accept
  \/ VM_Register
  \/ VM_HandshakeFails
  \/ VM_SendFails
  \/ VM_End

SpecValidators == Init /\ [][NextValidators]_vars

\* ------------------------------------- update channel that overflows
UpdateCap == 2        \* broadcast::channel(64) of the block producer, scaled

\* A tick; update_sender.send never waits: a full channel loses its oldest
\* BlockUpdate and the receiver has lagged.
LG_Tick ==
  /\ bp_alive
  /\ bp_slot < MaxSlot
  /\ \E txs \in TickBatches :
     LET out == process_output(store, txs, bp_slot)
         adv == advance_slot(bp_slot, uniq)
         update == [slot |-> adv.current_slot, blockhash |-> adv.current_blockhash,
                    transaction_count |-> Len(txs),
                    modified_accounts |-> Modified(out.results),
                    transaction_results |-> out.results]
     IN /\ store' = out.store
        /\ bp_slot' = adv.current_slot
        /\ bp_hash' = adv.current_blockhash
        /\ uniq' = uniq + 1
        /\ IF Len(updates) >= UpdateCap
             THEN /\ updates' = Append(Tail(updates), update)
                  /\ lg' = [lg EXCEPT !.lagged = TRUE]
             ELSE /\ updates' = Append(updates, update)
                  /\ lg' = lg
  /\ UNCHANGED <<leader, server, log, snaps, uh_pc, uh_update, rpc_slot,
                 gh_pending, gh_count, followerVars, twinVars, sessionVars, hashVars,
                 snapVars, tx_queue, max_txs, bp_alive, rpc_hash, send_result, n_sent,
                 rtVars, atomVars, cbVars, notifyVars, fanVars, stopVars,
                 am, sm, mo_out, vm, ex, wd>>

\* block_updates.recv() returns Ok(update): the loop body starts.
LG_Begin ==
  /\ lg.alive
  /\ ~lg.lagged
  /\ UH_Begin

\* block_updates.recv() returns Err(Lagged): `while let Ok` fails and the
\* update handler task ends.
LG_Lagged ==
  /\ lg.alive
  /\ lg.lagged
  /\ uh_pc = "idle"
  /\ lg' = [lagged |-> FALSE, alive |-> FALSE]
  /\ UNCHANGED <<baseVars, am, sm, mo_out, vm, ex, wd>>

NextLag ==
  \/ LG_Tick
  \/ LG_Begin
  \/ LG_Lagged
  \/ UH_End
  \/ GH_StoreOne
  \/ GH_Record

\* The update handler is a tokio task: it runs when its receiver has input.
SpecLag ==
  /\ Init /\ [][NextLag]_vars
  /\ WF_vars(LG_Begin) /\ WF_vars(LG_Lagged) /\ WF_vars(UH_End)

\* ------------------------------------ transactions through the queue
EX_Others ==
  <<rtVars, atomVars, cbVars, notifyVars, fanVars, stopVars, am, sm, mo_out, vm, lg,
    wd>>

RECURSIVE Ids(_)
Ids(txs) == IF txs = <<>> THEN <<>> ELSE <<Head(txs).id>> \o Ids(Tail(txs))

\* TransactionSender::send of a transaction numbered by the call.
EX_Submit ==
  /\ n_sent < MaxSubmits
  /\ \E t \in QueueTxs :
       LET tx == [success |-> t.success, accounts |-> t.accounts,
                  panics |-> t.panics, id |-> n_sent + 1]
           r == TransactionSender_send(tx_queue, bp_alive, tx)
       IN /\ tx_queue' = r.queue
          /\ send_result' = r.result
          /\ ex' = IF r.result = "ok"
                     THEN [ex EXCEPT !.accepted = Append(@, tx.id)] ELSE ex
  /\ n_sent' = n_sent + 1
  /\ UNCHANGED <<leaderVars, followerVars, twinVars, sessionVars, hashVars, snapVars,
                 EX_Others, max_txs, bp_hash, uniq, bp_alive, rpc_hash>>

\* One iteration of run_async: the batch drained is handed to
\* process_transactions.
EX_Tick ==
  /\ bp_alive
  /\ bp_slot < MaxSlot
  /\ LET d == drain(tx_queue, <<>>, max_txs) IN
     /\ ~Panics(d.pending)
     /\ TickCore(d.pending)
     /\ tx_queue' = d.queue
     /\ ex' = [ex EXCEPT !.executed = @ \o Ids(d.pending)]
  /\ UNCHANGED <<leader, server, log, snaps, uh_pc, uh_update, rpc_slot,
                 gh_pending, gh_count, followerVars, twinVars, sessionVars, hashVars,
                 snapVars, EX_Others, max_txs, bp_alive, rpc_hash, send_result, n_sent>>

\* The panic of process_transactions ends the producer.
EX_Panic ==
  /\ bp_alive
  /\ bp_slot < MaxSlot
  /\ Panics(drain(tx_queue, <<>>, max_txs).pending)
  /\ bp_alive' = FALSE
  /\ tx_queue' = <<>>
  /\ UNCHANGED <<leaderVars, followerVars, twinVars, sessionVars, hashVars, snapVars,
                 EX_Others, ex, max_txs, bp_hash, uniq, rpc_hash, send_result, n_sent>>

NextExec ==
  \/ EX_Submit
  \/ EX_Tick
  \/ EX_Panic

SpecExec == InitQueue /\ [][NextExec]_vars

\* --------------------------------------------------- one world's capacity
\* The world program's instructions, executed one at a time by the block
\* producer, and the game handler's join_world, all on the default world's
\* account.  wd.players holds the authorities whose player account exists.
MaxPlayers == 2
Authorities == 1..3
default_max_players == 100

WD_Others == <<baseVars, am, sm, mo_out, vm, lg, ex>>

\* WorldConfig::is_full
is_full(world) == world.player_count >= world.max_players

\* process_initialize_world: the account is written whatever it held.
WD_InitializeWorld ==
  /\ \E a \in Authorities, mp \in 0..MaxPlayers :
       wd' = [wd EXCEPT !.exists = TRUE, !.authority = a, !.max_players = mp,
                        !.player_count = 0,
                        !.last = [op |-> "InitializeWorld", authority |-> a]]
  /\ UNCHANGED WD_Others

\* process_join_world: fails on a full world; otherwise the player account
\* is written, whether or not it held a player, and the count goes up.
WD_JoinWorld ==
  /\ wd.exists
  /\ ~is_full(wd)
  /\ \E a \in Authorities :
       wd' = [wd EXCEPT !.players = @ \cup {a},
                        !.player_count = (@ + 1) % 65536,
                        !.last = [op |-> "JoinWorld", authority |-> a]]
  /\ UNCHANGED WD_Others

\* process_leave_world: the player account must hold a player of the
\* signing authority; the count goes down, saturating, and the player
\* account is left as it is.
WD_LeaveWorld ==
  /\ wd.exists
  /\ \E a \in wd.players :
       wd' = [wd EXCEPT !.player_count = IF @ = 0 THEN 0 ELSE @ - 1,
                        !.last = [op |-> "LeaveWorld", authority |-> a]]
  /\ UNCHANGED WD_Others

\* process_update_world by the world's authority, with Some(max_players).
WD_UpdateWorld ==
  /\ wd.exists
  /\ wd.authority \in Authorities
  /\ \E mp \in 0..MaxPlayers :
       wd' = [wd EXCEPT !.max_players = mp,
                        !.last = [op |-> "UpdateWorld", authority |-> wd.authority]]
  /\ UNCHANGED WD_Others

\* ensure_default_world: a missing world is created with the default
\* authority and 100 players.
ensure_default_world(w) ==
  IF w.exists THEN w
  ELSE [w EXCEPT !.exists = TRUE, !.authority = 0,
                 !.max_players = default_max_players, !.player_count = 0]

\* GameHandler::join_world: returns early when the player account exists;
\* otherwise stores the player and the world with its count raised.
WD_join_world ==
  /\ \E a \in Authorities :
       LET w == ensure_default_world(wd) IN
       wd' = IF a \in w.players
               THEN [w EXCEPT !.last = [op |-> "join_world", authority |-> a]]
               ELSE [w EXCEPT !.players = @ \cup {a},
                              !.player_count = (@ + 1) % 65536,
                              !.last = [op |-> "join_world", authority |-> a]]
  /\ UNCHANGED WD_Others

NextWorld ==
  \/ WD_InitializeWorld
  \/ WD_JoinWorld
  \/ WD_LeaveWorld
  \/ WD_UpdateWorld
  \/ WD_join_world

SpecWorld == Init /\ [][NextWorld]_vars

\* ================================================================ claims
IsPrefix(a, b) == Len(a) <= Len(b) /\ a = SubSeq(b, 1, Len(a))

Last(q) == q[Len(q)]

\* The update handler's end_slot step.
EndSlotStep == uh_pc = "open" /\ uh_pc' = "idle"

\* C1: hash chain.  Every broadcast StateChange carries as prev_state_root
\* the new_state_root of the one broadcast before it, and the first one the
\* all-zero root.
HashChain ==
  /\ log # <<>> => log[1].prev_state_root = ZeroRoot
  /\ \A i \in 1..(Len(log) - 1) : log[i + 1].prev_state_root = log[i].new_state_root

\* Two broadcasts with an empty slot elided between them.
HashChainWitness ==
  /\ Len(log) = 2
  /\ log[2].slot > log[1].slot + 1
  /\ log[2].prev_state_root = log[1].new_state_root

\* C2: non-broadcast invariance.  An end_slot on a slot that recorded no
\* write leaves the state root, the broadcast log, the channel and both
\* broadcast counters as they were; and as long as no write was ever made
\* the root is all-zero and nothing has been broadcast.
NonBroadcastInvariance ==
  /\ [][(EndSlotStep /\ leader.current_change # <<>>
           /\ leader.current_change[1].writes = <<>>)
        => /\ leader'.state_root = leader.state_root
           /\ leader'.state_changes_broadcast = leader.state_changes_broadcast
           /\ log' = log
           /\ server' = server
           /\ f_inbox' = f_inbox]_vars
  /\ [](gh_count = 0 =>
          /\ leader.state_root = ZeroRoot
          /\ log = <<>>
          /\ f_inbox = <<>>
          /\ leader.state_changes_broadcast = 0
          /\ server.messages_broadcast = 0)

\* Empty slots have ended after a broadcast, and the root is still the
\* broadcast one.
NonBroadcastWitness ==
  /\ uh_pc = "idle"
  /\ Len(log) = 1
  /\ leader.current_slot > log[1].slot
  /\ leader.state_root = log[1].new_state_root
  /\ leader.state_changes_broadcast = 1

\* C3: follower equivalence.  Once the follower has applied a prefix of the
\* broadcast log, its root is the root the leader sealed last in the prefix
\* and, for every key written in the prefix, its account equals the
\* leader's account as of that seal.
TouchedKeys(changes) ==
  UNION {{changes[i].writes[j].pubkey : j \in 1..Len(changes[i].writes)} :
           i \in 1..Len(changes)}

Content(account) ==
  [data |-> account.data, lamports |-> account.lamports, owner |-> account.owner]

FollowerEquivalence ==
  (f_applied # <<>> /\ IsPrefix(f_applied, log)) =>
     LET n == Len(f_applied) IN
     /\ follower.state_root = log[n].new_state_root
     /\ \A k \in TouchedKeys(f_applied) :
          /\ k \in DOMAIN follower.accounts
          /\ k \in DOMAIN snaps[n]
          /\ Content(follower.accounts[k]) = Content(snaps[n][k].account)

\* C4: commit implies broadcast.  When the update handler ends the slot of a
\* BlockUpdate that committed account writes, a StateChange for that slot
\* with exactly those writes is broadcast.
WritesOf(accts) ==
  [i \in 1..Len(accts) |->
     AccountWrite(accts[i][1], accts[i][2].data, accts[i][2].lamports, accts[i][2].owner)]

CommitImpliesBroadcast ==
  [][(EndSlotStep /\ uh_update.modified_accounts # <<>>)
     => /\ Len(log') = Len(log) + 1
        /\ Last(log').slot = uh_update.slot
        /\ Last(log').writes = WritesOf(uh_update.modified_accounts)]_vars

\* C5: determinism.  Two leader runs given the same ordered writes in the
\* same slots seal the same new_state_root for every sealed slot.
Determinism ==
  /\ Len(log) = Len(twin_log)
  /\ \A i \in 1..Len(log) : log[i].new_state_root = twin_log[i].new_state_root

\* The follower's loop iteration on a received StateChange.
RecvStep == f_running /\ f_inbox # <<>> /\ f_inbox' = Tail(f_inbox)

RootCheckPasses(v, change) ==
  v.state_root = ZeroRoot \/ change.prev_state_root = v.state_root

HashCheckPasses(change) ==
  change.new_state_root =
    <<change.slot, change.prev_state_root, change.timestamp, HashWrites(change.writes)>>

IsChallenge(m, slot) == m.type = "FraudChallenge" /\ m.slot = slot

\* C6: follower root check.  A received StateChange whose prev_state_root
\* differs from the follower's root, all-zero or not, is rejected: nothing
\* of the follower changes and a FraudChallenge for its slot is sent.
FollowerRootCheck ==
  [][(RecvStep /\ Head(f_inbox).prev_state_root # follower.state_root)
     => /\ follower' = follower
        /\ Len(f_out') = Len(f_out) + 1
        /\ IsChallenge(Last(f_out'), Head(f_inbox).slot)]_vars

\* C7: once a FraudChallenge has been sent the follower has left its
\* receive loop: it applies nothing and sends nothing any more.
DisconnectAfterChallenge ==
  [][(\E i \in 1..Len(f_out) : f_out[i].type = "FraudChallenge")
     => /\ follower' = follower
        /\ f_out' = f_out
        /\ f_applied' = f_applied]_vars

\* C8: a StateChange whose new_state_root is not the hash of its body is
\* answered by one FraudChallenge for its slot (the hash-mismatch one when
\* the prev-root check passed), and accounts, root and last_verified_slot
\* stay exactly as they were.
HashMismatchRejection ==
  [][(RecvStep /\ ~HashCheckPasses(Head(f_inbox)))
     => /\ follower' = follower
        /\ f_applied' = f_applied
        /\ Len(f_out') = Len(f_out) + 1
        /\ SubSeq(f_out', 1, Len(f_out)) = f_out
        /\ IsChallenge(Last(f_out'), Head(f_inbox).slot)
        /\ RootCheckPasses(follower, Head(f_inbox))
             => Last(f_out').reason = HashMismatch]_vars

\* A doctored frame was rejected by a follower that already held accounts.
HashMismatchWitness ==
  /\ Len(f_out) = 2
  /\ f_out[2].type = "FraudChallenge"
  /\ f_out[2].reason = HashMismatch
  /\ Len(f_applied) = 1
  /\ DOMAIN follower.accounts # {}
  /\ follower.state_root = f_applied[1].new_state_root

\* The account a key holds after the writes: the last write to the key.
LastWriteTo(ws, k) ==
  LET j == CHOOSE j \in 1..Len(ws) :
             /\ ws[j].pubkey = k
             /\ \A i \in (j + 1)..Len(ws) : ws[i].pubkey # k
  IN [lamports |-> ws[j].lamports, data |-> ws[j].data, owner |-> ws[j].owner,
      executable |-> FALSE, rent_epoch |-> 0]

Written(ws) == {ws[j].pubkey : j \in 1..Len(ws)}

\* C9: follower apply step.  A StateChange that passes the prev-root check
\* and the hash check is applied write by write in sequence order (the last
\* write to a key is what the key holds), the root becomes new_state_root,
\* last_verified_slot becomes the slot, and exactly one SlotVerified with
\* that slot is sent.
FollowerApply ==
  [][(RecvStep /\ RootCheckPasses(follower, Head(f_inbox))
        /\ HashCheckPasses(Head(f_inbox)))
     => LET c == Head(f_inbox) IN
        /\ DOMAIN follower'.accounts = (DOMAIN follower.accounts) \cup Written(c.writes)
        /\ \A k \in DOMAIN follower'.accounts :
             follower'.accounts[k] =
               IF k \in Written(c.writes) THEN LastWriteTo(c.writes, k)
                                          ELSE follower.accounts[k]
        /\ follower'.state_root = c.new_state_root
        /\ follower'.last_verified_slot = c.slot
        /\ f_out' = Append(f_out, SlotVerified(c.slot, node_id))]_vars

\* A change writing one key twice was applied: the key holds the second
\* value.
FollowerApplyWitness ==
  /\ f_applied # <<>>
  /\ Len(Last(f_applied).writes) = 2
  /\ Last(f_applied).writes[1].pubkey = Last(f_applied).writes[2].pubkey
  /\ Last(f_applied).writes[1].data # Last(f_applied).writes[2].data
  /\ follower.accounts[Last(f_applied).writes[2].pubkey].data = Last(f_applied).writes[2].data
  /\ Last(f_out) = SlotVerified(Last(f_applied).slot, node_id)
  /\ follower.last_verified_slot = Last(f_applied).slot

\* C10: gap detection.  A StateChange whose slot is not last_verified_slot
\* + 1 is not applied; SyncRequest{from_slot = last_verified_slot + 1} is
\* sent instead.
GapDetection ==
  [][(RecvStep /\ Head(f_inbox).slot # follower.last_verified_slot + 1)
     => /\ follower' = follower
        /\ f_out' = Append(f_out, SyncRequest(follower.last_verified_slot + 1))]_vars

\* C11: sync service.  Whenever the session has a SyncRequest{from_slot} to
\* read and the leader has sealed a StateChange for a slot >= from_slot, the
\* server eventually writes a SyncResponse to that validator.
SyncServed ==
  (/\ s_open /\ s_in # <<>> /\ Head(s_in).type = "SyncRequest"
   /\ \E i \in 1..Len(log) : log[i].slot >= Head(s_in).from_slot)
    ~> (\E i \in 1..Len(s_wire) : s_wire[i].type = "SyncResponse")

\* The canonical form of a slot's mutations: one entry per key, keys in the
\* order they were first mutated, each entry carrying the key's last mutation.
LastMutation(ws, k) ==
  ws[CHOOSE j \in 1..Len(ws) :
       /\ ws[j].pubkey = k
       /\ \A i \in (j + 1)..Len(ws) : ws[i].pubkey # k]

RECURSIVE CanonicalFrom(_, _)
CanonicalFrom(ws, j) ==
  IF j > Len(ws) THEN <<>>
  ELSE (IF \A i \in 1..(j - 1) : ws[i].pubkey # ws[j].pubkey
          THEN <<LastMutation(ws, ws[j].pubkey)>> ELSE <<>>)
         \o CanonicalFrom(ws, j + 1)

\* C12: canonical writes sequence.  The writes of every sealed StateChange
\* hold each key at most once, in first-touch order, with the value of the
\* key's last mutation in the slot: the sequence is its own canonical form.
CanonicalWrites ==
  \A i \in 1..Len(log) : log[i].writes = CanonicalFrom(log[i].writes, 1)

\* C13: unambiguous hash input.  For a fixed slot, prev_state_root and
\* timestamp, two different writes sequences never give compute_hash the
\* same input, so they never get the same hash.
UnambiguousHashInput ==
  (h_out # <<>> /\ h_a # h_b) => h_out[1] # h_out[2]

\* C14: the admission queue never holds more than its capacity, and a send on
\* a full queue returns the "full" error at once and leaves the queue as it was.
BoundedQueue ==
  /\ [](Len(tx_queue) <= QueueCap)
  /\ [][(n_sent' # n_sent /\ Len(tx_queue) = QueueCap)
          => (send_result' = "full" /\ tx_queue' = tx_queue)]_vars

BoundedQueueWitness ==
  /\ Len(tx_queue) = QueueCap
  /\ send_result = "full"
  /\ bp_slot > 0

\* C15: when the queue is full and the block producer completes a tick, the
\* send that comes next succeeds, whatever transaction it carries.
BackPressureRecovery ==
  [][(Len(tx_queue) = QueueCap /\ bp_slot' = bp_slot + 1)
      => \A tx \in QueueTxs :
           TransactionSender_send(tx_queue', bp_alive', tx).result = "ok"]_vars

\* Capacity reached, one send refused, one tick, and the send after it taken.
BackPressureWitness ==
  /\ n_sent = QueueCap + 2
  /\ bp_slot = 1
  /\ max_txs <= 1
  /\ Len(tx_queue) = QueueCap
  /\ send_result = "ok"

\* C16: a tick executes at most max_txs_per_block transactions, the ones at
\* the head of the queue in their order, and leaves the rest queued in order.
DrainLimit ==
  [][(bp_slot' = bp_slot + 1) =>
       LET n == updates'[Len(updates')].transaction_count IN
       /\ n <= max_txs
       /\ n <= Len(tx_queue)
       /\ updates'[Len(updates')].transaction_results
            = process_output(store, SubSeq(tx_queue, 1, n), bp_slot).results
       /\ tx_queue' = SubSeq(tx_queue, n + 1, Len(tx_queue))]_vars

\* C17: a tick whose batch makes the instruction processor panic still
\* completes: the slot advances, the update of the tick carries an error
\* result, and the block producer stays alive for the ticks after it.
PanicIsolation ==
  [][(n_sent' = n_sent /\ Panics(drain(tx_queue, <<>>, max_txs).pending))
      => /\ bp_alive'
         /\ bp_slot' = bp_slot + 1
         /\ Len(updates') = Len(updates) + 1
         /\ \E i \in 1..Len(updates'[Len(updates')].transaction_results) :
              ~updates'[Len(updates')].transaction_results[i].success]_vars

\* The keys a batch's successful transactions write, and the last account
\* such a transaction gives a key.
OkKeys(txs) ==
  {txs[i].accounts[j][1] : i \in {n \in 1..Len(txs) : txs[n].success}, j \in {1}}

LastOkAccount(txs, k) ==
  LET last == CHOOSE i \in 1..Len(txs) :
                /\ txs[i].success /\ txs[i].accounts[1][1] = k
                /\ \A n \in (i + 1)..Len(txs) :
                     ~(txs[n].success /\ txs[n].accounts[1][1] = k)
  IN txs[last].accounts[1][2]

IsSuccess(t) == t.success

\* C18: in every completed tick a failed transaction stores nothing, reports
\* no modified account and adds nothing to the update's modified_accounts,
\* while the successful transactions of the batch are stored and reported.
FailedNoEffect ==
  [][(bp_slot' = bp_slot + 1) =>
       LET txs == drain(tx_queue, <<>>, max_txs).pending
           u == updates'[Len(updates')]
           ok == SelectSeq(txs, IsSuccess)
       IN /\ Len(u.transaction_results) = Len(txs)
          /\ \A i \in 1..Len(txs) :
               /\ u.transaction_results[i].success = txs[i].success
               /\ u.transaction_results[i].modified_accounts
                    = IF txs[i].success THEN txs[i].accounts ELSE <<>>
          /\ Len(u.modified_accounts) = Len(ok)
          /\ \A j \in 1..Len(ok) : u.modified_accounts[j] = ok[j].accounts[1]
          /\ DOMAIN store' = DOMAIN store \cup OkKeys(txs)
          /\ \A k \in DOMAIN store' :
               IF k \in OkKeys(txs)
                 THEN store'[k].account = LastOkAccount(txs, k)
                 ELSE store'[k] = store[k]]_vars

\* A tick has run a failed transaction on key 2 next to a successful one on
\* key 1: key 1 is stored, key 2 is not.
FailedNoEffectWitness ==
  /\ \E n \in 1..Len(updates) :
       /\ updates[n].transaction_count >= 2
       /\ \E i, j \in 1..Len(updates[n].transaction_results) :
            /\ ~updates[n].transaction_results[i].success
            /\ updates[n].transaction_results[j].success
  /\ 1 \in DOMAIN store
  /\ 2 \notin DOMAIN store

\* C19: every tick of the block producer (every step that is not a submission)
\* advances current_slot by exactly 1, replaces current_blockhash by a
\* different value, and publishes a BlockUpdate with the new slot and hash.
SlotClock ==
  [][(n_sent' = n_sent) =>
       /\ bp_slot' = bp_slot + 1
       /\ bp_hash' # bp_hash
       /\ Len(updates') = Len(updates) + 1
       /\ updates'[Len(updates')].slot = bp_slot'
       /\ updates'[Len(updates')].blockhash = bp_hash']_vars

\* C20: in every snapshot, periodic or shutdown, every account record is
\* written before the chain metadata and the flush comes after the metadata.
SnapshotOrder ==
  \A w \in Savers :
    \A i, j \in 1..Len(sv_ops[w]) :
      /\ (sv_ops[w][i] = "account" /\ sv_ops[w][j] = "metadata") => i < j
      /\ (sv_ops[w][i] = "metadata" /\ sv_ops[w][j] = "flush") => i < j

\* C21: whenever the process is killed after a snapshot has completed, the
\* durable store read at restart is that snapshot: its metadata, every account
\* as the snapshot wrote it, and no account tagged with a later slot.
CrashConsistency ==
  [][(restarts' = restarts + 1 /\ disk_done # <<>>) =>
       /\ disk' = disk_done[1]
       /\ \A k \in DOMAIN disk'.accounts :
            from_le_bytes(disk'.accounts[k].slot) <= disk'.metadata[1].slot]_vars

\* C22: a leader that starts on a durable store with metadata slot S holds
\* every persisted account with its slot tag and has current slot S; without
\* metadata it starts at slot 0.
RestartResumes ==
  [][(restarts' = restarts + 1) =>
       IF load_metadata(durable) # <<>>
         THEN /\ DOMAIN store' = DOMAIN durable.accounts
              /\ \A k \in DOMAIN store' :
                   /\ bincode_serialize(store'[k].account) = durable.accounts[k].account
                   /\ to_le_bytes(store'[k].slot) = durable.accounts[k].slot
              /\ bp_slot' = load_metadata(durable)[1].slot
         ELSE bp_slot' = 0]_vars

\* C23: a save followed by a load into an empty account store gives back the
\* account store exactly (keys, accounts, slots) and the metadata saved.
SnapshotRoundTrip ==
  rt_loaded # <<>> =>
    /\ rt_loaded[1].store = store
    /\ rt_loaded[1].metadata = <<rt_loaded[1].saved>>

\* C24: get_account_with_slot returns None or an (account, slot) pair that one
\* call of store_account wrote: never an account with another call's slot or
\* with the default slot 0.
AtomicPut ==
  as_result # <<>> => as_result[1] \in as_written

OfKey(seq, k) == SelectSeq(seq, LAMBDA n : n.pubkey = k)

RECURSIVE Committed(_)
Committed(notifications) ==
  IF notifications = <<>> THEN <<>>
  ELSE <<[pubkey |-> Head(notifications).pubkey, slot |-> Head(notifications).slot,
          account |-> Head(notifications).account]>> \o Committed(Tail(notifications))

RECURSIVE IsSubsequence(_, _)
IsSubsequence(a, b) ==
  IF a = <<>> THEN TRUE
  ELSE IF b = <<>> THEN FALSE
  ELSE IF Head(a) = Head(b) THEN IsSubsequence(Tail(a), Tail(b))
  ELSE IsSubsequence(a, Tail(b))

NotificationOrder ==
  \A k \in Keys :
    /\ IsSubsequence(Committed(OfKey(nt_recv, k)), OfKey(nt_commits, k))
    /\ \A i, j \in DOMAIN OfKey(nt_recv, k) :
         i < j => OfKey(nt_recv, k)[i].slot <= OfKey(nt_recv, k)[j].slot

\* C26 witness: a subscriber has received two notifications of one slot for
\* one key carrying different accounts, and then one of a later slot.
NotificationOrderWitness ==
  /\ Len(nt_recv) >= 3
  /\ nt_recv[1].pubkey = nt_recv[2].pubkey
  /\ nt_recv[1].slot = nt_recv[2].slot
  /\ nt_recv[1].account # nt_recv[2].account
  /\ nt_recv[3].pubkey = nt_recv[1].pubkey
  /\ nt_recv[3].slot > nt_recv[2].slot


\* ---------------------------------------------------------------------------
\* C27  Per-follower fan-out.  What a session has forwarded is an
\* order-preserving selection of the frames broadcast after it subscribed;
\* a session whose receiver lagged is still open with its forwarding task
\* running, unless the validator closed it; and a session that lagged goes
\* on to forward up to the newest frame, unless the validator closes it.
BroadcastSince(start) ==
  IF start > Len(fo_log) THEN <<>> ELSE SubSeq(fo_log, start, Len(fo_log))

SingleWriter ==
  [][store' # store => bp_slot' = bp_slot + 1]_vars

\* ---------------------------------------------------------------------------
\* C29  Idle heartbeats.  Whenever the update handler has finished a slot,
\* some frame (a StateChange or a Heartbeat) was broadcast for one of the last
\* HeartbeatSlots slots: the leader is never HeartbeatSlots slots past the
\* slot of the last frame it broadcast.  log holds every frame the leader
\* hands to the broadcast server; nothing in run_leader calls
\* LeaderNode::heartbeat, so no action appends a Heartbeat to it.
HeartbeatSlots == 2   \* K, the longest run of slots without a frame

LastFrameSlot == IF log = <<>> THEN 0 ELSE log[Len(log)].slot

IdleHeartbeats ==
  uh_pc = "idle" => rpc_slot - LastFrameSlot < HeartbeatSlots

\* ---------------------------------------------------------------------------
\* C30  Shutdown at a tick boundary.  Once stop() has returned the run loop
\* starts at most one further tick, and the loop returns only between ticks,
\* with nothing drained and left unprocessed.
ShutdownAtBoundary ==
  /\ sd_bp.ticks_after_stop <= 1
  /\ sd_bp.pc = "returned" => sd_bp.pending = 0

\* ---------------------------------------------------------------------------
\* C31  Account store is a map.  After any sequence of store_account,
\* remove_account and clear calls made one after another,
\* get_account_with_slot of a key returns the account and slot of the last
\* store_account of that key that no later remove_account of the key or
\* clear followed, and None otherwise; account_exists, len and
\* get_all_pubkeys agree with that set of keys, and both maps hold the same
\* keys.
RECURSIVE LatestStore(_, _)
LatestStore(calls, k) ==
  IF calls = <<>> THEN <<>>
  ELSE LET c == calls[Len(calls)] IN
       IF c.op = "clear" THEN <<>>
       ELSE IF c.pubkey # k THEN LatestStore(SubSeq(calls, 1, Len(calls) - 1), k)
       ELSE IF c.op = "remove_account" THEN <<>>
       ELSE <<[account |-> c.account, slot |-> c.slot]>>

LiveKeys == {k \in Keys : LatestStore(am.calls, k) # <<>>}

StoreIsMap ==
  /\ \A k \in Keys :
       /\ get_account_with_slot(am, k) = LatestStore(am.calls, k)
       /\ account_exists(am, k) <=> k \in LiveKeys
  /\ AccountStore_len(am) = Cardinality(LiveKeys)
  /\ get_all_pubkeys(am) = LiveKeys
  /\ DOMAIN am.accounts = DOMAIN am.account_slots

\* C31 witness: a key was stored, removed and stored again, and the store
\* holds its second account.
StoreIsMapWitness ==
  /\ Len(am.calls) = 3
  /\ am.calls[1].op = "store_account"
  /\ am.calls[2].op = "remove_account"
  /\ am.calls[3].op = "store_account"
  /\ am.calls[2].pubkey = am.calls[1].pubkey
  /\ am.calls[3].pubkey = am.calls[1].pubkey
  /\ am.calls[3].account # am.calls[1].account
  /\ get_account_with_slot(am, am.calls[1].pubkey) # <<>>

\* ---------------------------------------------------------------------------
\* C32  Subscription routing.  The ids subscribe_account returned are 1, 2,
\* ... in call order; each notify_account_update(key) call put exactly one
\* notification, with the receiver's own id, the key and the call's slot, in
\* the receiver of every subscription registered on the key at that call,
\* and nothing anywhere else; unsubscribe returned true exactly when the id
\* was registered at that call.
\* The key an id is registered on after the first n calls, as <<key>>, or <<>>.
RECURSIVE RegisteredKey(_, _, _)
RegisteredKey(calls, n, id) ==
  IF n = 0 THEN <<>>
  ELSE LET c == calls[n] IN
       IF c.op = "subscribe_account" /\ c.result = id THEN <<c.pubkey>>
       ELSE IF c.op = "unsubscribe" /\ c.id = id THEN <<>>
       ELSE RegisteredKey(calls, n - 1, id)

CallsOf(op) == {n \in DOMAIN sm.calls : sm.calls[n].op = op}

\* The notifications the calls should have put in the receiver of id.
Expected(id) ==
  LET hits == {n \in CallsOf("notify_account_update") :
                 RegisteredKey(sm.calls, n - 1, id) = <<sm.calls[n].pubkey>>}
      RECURSIVE InOrder(_)
      InOrder(ns) ==
        IF ns = {} THEN <<>>
        ELSE LET n == CHOOSE x \in ns : \A y \in ns : x <= y IN
             <<[subscription_id |-> id, pubkey |-> sm.calls[n].pubkey,
                slot |-> sm.calls[n].slot, account |-> MkAccount(1)]>>
               \o InOrder(ns \ {n})
  IN InOrder(hits)

SubscriptionRouting ==
  /\ \A n \in CallsOf("subscribe_account") :
       sm.calls[n].result =
         Cardinality({i \in CallsOf("subscribe_account") : i <= n})
  /\ \A id \in DOMAIN sm.receivers : sm.receivers[id] = Expected(id)
  /\ \A n \in CallsOf("unsubscribe") :
       sm.calls[n].result = (RegisteredKey(sm.calls, n - 1, sm.calls[n].id) # <<>>)

\* C32 witness: two subscriptions on one key, the first unsubscribed, then
\* a notification of that key: only the second receiver holds it.
SubscriptionRoutingWitness ==
  /\ Len(sm.calls) = 4
  /\ sm.calls[4].op = "notify_account_update"
  /\ DOMAIN sm.receivers = {1, 2}
  /\ sm.receivers[1] = <<>>
  /\ Len(sm.receivers[2]) = 1
  /\ sm.calls[3].op = "unsubscribe" /\ sm.calls[3].result

\* ---------------------------------------------------------------------------
\* C33  Owner matching agrees with account loading.  Every
\* account_matches_owners(key, owners) call returns the index of the first
\* candidate equal to the owner of the account get_account_shared_data
\* returns for the key, and None when no candidate equals it.
LoadedOwner(k) == get_account_shared_data(store, k).owner

OpenConns == {c \in Conns : vm.conn[c].pc = "open"}

SessionMapAccurate ==
  /\ connected_validators(vm.validators) = Cardinality(OpenConns)
  /\ DOMAIN vm.validators = {vm.conn[c].temp_id : c \in OpenConns}
  /\ \A c \in Conns :
       vm.conn[c].pc = "done" => vm.conn[c].send_task \in {"none", "aborted"}

\* C34 witness: one session has ended after registering while another,
\* registered before it ended, is still open.
SessionMapWitness ==
  \E c, d \in Conns :
    /\ vm.conn[c].pc = "done" /\ vm.conn[c].temp_id # 0
    /\ vm.conn[d].pc = "open"
    /\ vm.conn[d].temp_id < vm.conn[c].temp_id

\* ---------------------------------------------------------------------------
\* C35  Update handler liveness.  The update handler task never ends while
\* the leader runs, and every BlockUpdate waiting in the update channel is
\* eventually taken, also after the channel has overflowed.
UpdateHandlerLive ==
  /\ [](lg.alive)
  /\ ((updates # <<>>) ~> (updates = <<>>))

\* ---------------------------------------------------------------------------
\* C36  No recorded write is lost.  Every write the game handler has stored
\* and recorded is held once by the StateChanges the leader has broadcast or
\* by the StateChange of the open slot, which end_slot will broadcast: the
\* writes counted there are as many as the store_and_broadcast calls that
\* have returned.
RECURSIVE WritesBroadcast(_)
WritesBroadcast(changes) ==
  IF changes = <<>> THEN 0
  ELSE Len(Head(changes).writes) + WritesBroadcast(Tail(changes))

WritesOpen ==
  IF leader.current_change = <<>> THEN 0 ELSE Len(leader.current_change[1].writes)

NoWriteLost ==
  WritesBroadcast(log) + WritesOpen = gh_count - Len(gh_pending)

\* ---------------------------------------------------------------------------
\* C37  Slot tags agree.  When a tick publishes its BlockUpdate, the slot of
\* the update (which the update handler passes on in the notifications) is
\* the slot of each of its TransactionResults and the last-modified slot the
\* account store holds for each account the update reports as modified.
SlotTagsAgree ==
  [][Len(updates') > Len(updates) =>
       LET u == updates'[Len(updates')] IN
         /\ \A i \in DOMAIN u.transaction_results :
              u.transaction_results[i].slot = u.slot
         /\ \A i \in DOMAIN u.modified_accounts :
              store'[u.modified_accounts[i][1]].slot = u.slot]_vars

\* ---------------------------------------------------------------------------
\* C38  Exactly-once execution.  While the block producer is ticking, the
\* transactions handed to the processor so far, followed by those still in
\* the queue, are exactly the transactions send accepted, each once and in
\* the order of acceptance.
ExactlyOnce ==
  bp_alive => ex.executed \o Ids(tx_queue) = ex.accepted

\* C38 witness: three transactions were accepted and executed over two
\* ticks by a producer with a batch limit of two.
ExactlyOnceWitness ==
  /\ bp_alive
  /\ max_txs = 2
  /\ bp_slot = 2
  /\ Len(ex.executed) = 3
  /\ tx_queue = <<>>
  /\ updates[1].transaction_count = 2

\* ---------------------------------------------------------------------------
\* The follower's state after verify_and_apply accepted the given changes in
\* order, starting from v.
RECURSIVE StateAfter(_, _)
StateAfter(v, changes) ==
  IF changes = <<>> THEN v
  ELSE StateAfter(
         [v EXCEPT !.accounts = ApplyWrites(v.accounts, Head(changes).writes),
                   !.state_root = Head(changes).new_state_root,
                   !.last_verified_slot = Head(changes).slot],
         Tail(changes))

\* C39  Follower terminates on disconnect.  Once the leader has closed the
\* connection or the transport has failed, the run loop ends; until then it
\* takes the buffered StateChanges one at a time from the front and answers
\* each (SlotVerified or FraudChallenge for its slot), it ends only with
\* the buffer empty, and the state it ends with is the state after the
\* StateChanges it applied.
FollowerTerminates ==
  /\ f_closed ~> ~f_running
  /\ [][/\ (f_running /\ ~f_running') => (f_closed /\ f_inbox = <<>>)
        /\ (f_closed /\ f_inbox' # f_inbox) =>
              /\ f_inbox # <<>>
              /\ f_inbox' = Tail(f_inbox)
              /\ f_out' = Append(f_out, Last(f_out'))
              /\ Last(f_out').slot = Head(f_inbox).slot]_vars
  /\ [](~f_running =>
          /\ Len(f_out) = f_injected
          /\ follower = StateAfter(ValidatorNode_new, f_applied))

\* C39 witness: the connection went away, two StateChanges were answered
\* and applied and the loop has ended.
FollowerTerminatesWitness ==
  /\ ~f_running
  /\ f_closed
  /\ f_injected = 2
  /\ Len(f_out) = 2
  /\ Len(f_applied) = 2
  /\ follower.state_root = Last(f_applied).new_state_root

\* ---------------------------------------------------------------------------
\* C40  World capacity.  The world's player_count never exceeds its
\* max_players, and a join (by instruction or through the game handler) of
\* an authority whose player account already exists does not raise
\* player_count.
WorldCapacity ==
  /\ [](wd.exists => wd.player_count <= wd.max_players)
  /\ [][(/\ wd.exists
         /\ wd'.last.op \in {"JoinWorld", "join_world"}
         /\ wd'.last.authority \in wd.players
         /\ wd' # wd)
        => wd'.player_count <= wd.player_count]_vars

====
